---- MODULE Spec2Model ----
\* Verification model of the Origami chat front end: the tolerant action
\* extractor (message.tsx: extractField / tryRecoverAction), the Message and
\* ActionCard components, the /api/chat proxy route, and the streaming
\* protocol (segmenter, wire encoder, wire decoder) of the design document.
\*
\* Text is modelled as a sequence of one-character strings.  The control
\* characters a decoder can produce are the tokens "BS", "FF", "LF", "CR" and
\* "TAB"; each stands for one character.
EXTENDS Integers, Sequences, FiniteSets, TLC

VARIABLES
    \* ---- tryRecoverAction / extractField (message.tsx) ----
    text,       \* the argument of tryRecoverAction
    pc,         \* position in tryRecoverAction: "quick", "match", "scan", "done"
    trimmed,    \* text.trim()
    fidx,       \* which extractField call is running (index into FieldOrder)
    i,          \* extractField's scan index (1-based)
    chars,      \* extractField's accumulated characters
    vals,       \* return value of each finished extractField call
    result,     \* return value of tryRecoverAction
    \* ---- POST /api/chat proxy (app/api/chat/route.ts) ----
    phase,      \* "fetching" (awaiting fetch), "streaming" (200 returned, body
                \* being piped), "finished" (body complete), "failed" (error returned)
    timeout,    \* the setTimeout handle: "armed", "fired" or "cleared"
    aborted,    \* controller.signal.aborted
    clock,      \* time since the request arrived, in minutes
    sent,       \* chunks of the backend body passed on to the client
    status,     \* status of the Response returned, 0 while none is
    errorMsg,   \* the error of the Response body, "" when none
    \* ---- ChatPanel / Message / ActionCard ----
    messages,     \* useChat's messages: a sequence of [id, parts]
    resp,         \* the assistant message of the response being streamed
    chatStatus,   \* useChat's status: "ready" or "streaming"
    onFileAction, \* identity of the onFileAction prop, "none" when not given
    activeTitle,  \* the activeTitle prop
    cards,        \* the mounted ActionCard instances, by (message id, part index)
    shown,        \* what Message renders for each part of each message
    calls,        \* the invocations of onFileAction so far, in order
    nextId,       \* the id the next message gets
    switches,     \* how often switchChat has run
    \* ---- Segmenter ----
    segInput,     \* the text the model produces
    segPos,       \* how many characters of it have been fed
    segmenter,    \* the Segmenter: mode, lookback buffer, segments so far
    segDone,      \* flush has run
    rawChunks,    \* the chunks the model has still to deliver, when fixed ahead
    \* ---- Wire Encoder and Wire Decoder ----
    fragments,    \* the segment fragments encoded so far
    encDone,      \* the end markers have been written
    injected,     \* how many lines no Encoder wrote have entered the transport
    transport,    \* the bytes written and not yet read
    decoder,      \* the Decoder: line buffer, parts so far
    \* ---- workspace layout and chat panel state ----
    workspace,    \* notes, active note, editor content, autosave timer
    chatPanel,    \* active chat, its messages, status, loads in flight
    \* ---- sidebar ----
    confirm,      \* the delete confirmation of each list
    listing,      \* the notes list of the layout and the backend's notes
    ingest        \* the uploads being ingested and the document poll

extractVars == <<text, pc, trimmed, fidx, i, chars, vals, result>>
proxyVars == <<phase, timeout, aborted, clock, sent, status, errorMsg>>
chatVars ==
    <<messages, resp, chatStatus, onFileAction, activeTitle, cards, shown,
      calls, nextId, switches>>

segVars == <<segInput, segPos, segmenter, segDone, rawChunks>>
wireVars == <<fragments, encDone, injected, transport, decoder>>
streamVars == <<segVars, wireVars>>

sideVars == <<confirm, listing, ingest>>
uiVars == <<workspace, chatPanel, sideVars>>

vars == <<extractVars, proxyVars, chatVars, streamVars, uiVars>>

------------------------------------------------------------------------------
\* Characters

BSL == "\\"
Q == "\""
\* null and undefined, as values distinct from every string
NULL == <<"NULL">>
UNDEFINED == <<"UNDEFINED">>

Letters ==
    { "a","b","c","d","e","f","g","h","i","j","k","l","m",
      "n","o","p","q","r","s","t","u","v","w","x","y","z",
      "A","B","C","D","E","F","G","H","I","J","K","L","M",
      "N","O","P","Q","R","S","T","U","V","W","X","Y","Z" }

\* /[a-zA-Z]/.test(c)
IsLetter(c) == c \in Letters

\* \s of a JavaScript regular expression, and the characters trim() removes
IsSpace(c) == c \in {" ", "LF", "CR", "TAB", "FF"}

HexDigits ==
    { "0","1","2","3","4","5","6","7","8","9",
      "a","b","c","d","e","f","A","B","C","D","E","F" }

SubSeqFrom(s, a) == SubSeq(s, a, Len(s))

\* s occurs in json at position p
HasAt(json, p, s) ==
    /\ p >= 1
    /\ p + Len(s) - 1 <= Len(json)
    /\ \A k \in 1..Len(s) : json[p + k - 1] = s[k]

\* json.includes(s)
Includes(json, s) == \E p \in 1..Len(json) : HasAt(json, p, s)

RECURSIVE TrimStart(_)
TrimStart(s) ==
    IF s # <<>> /\ IsSpace(Head(s)) THEN TrimStart(Tail(s)) ELSE s

RECURSIVE TrimEnd(_)
TrimEnd(s) ==
    IF s # <<>> /\ IsSpace(s[Len(s)]) THEN TrimEnd(SubSeq(s, 1, Len(s) - 1)) ELSE s

\* text.trim()
Trim(s) == TrimEnd(TrimStart(s))

------------------------------------------------------------------------------
\* extractField

ActionKey == <<"a","c","t","i","o","n">>
MessageKey == <<"m","e","s","s","a","g","e">>
ContentKey == <<"c","o","n","t","e","n","t">>
FilenameKey == <<"f","i","l","e","n","a","m","e">>

\* the order in which tryRecoverAction calls extractField
FieldOrder == <<ActionKey, MessageKey, ContentKey, FilenameKey>>

RECURSIVE SkipWs(_, _)
SkipWs(json, p) ==
    IF p <= Len(json) /\ IsSpace(json[p]) THEN SkipWs(json, p + 1) ELSE p

\* new RegExp(`"${field}"\\s*:\\s*"`) matched at position p: the position after
\* the match, 0 when it does not match there
keyReMatchAt(json, p, field) ==
    LET key == <<Q>> \o field \o <<Q>> IN
    IF ~HasAt(json, p, key) THEN 0
    ELSE LET a == SkipWs(json, p + Len(key)) IN
         IF a <= Len(json) /\ json[a] = ":"
         THEN LET b == SkipWs(json, a + 1) IN
              IF b <= Len(json) /\ json[b] = Q THEN b + 1 ELSE 0
         ELSE 0

\* keyRe.exec(json): m.index + m[0].length of the leftmost match (1-based),
\* 0 when there is no match
keyReExec(json, field) ==
    LET hits == { p \in 1..Len(json) : keyReMatchAt(json, p, field) # 0 } IN
    IF hits = {} THEN 0
    ELSE keyReMatchAt(json, CHOOSE p \in hits : \A q \in hits : p <= q, field)

\* (mutation) backslash-slash is not recognised
IsSimpleEscape_NoSlash(nxt) == nxt \in {Q, BSL, "n", "r", "t"}

\* the escapes that are decoded whatever follows them
IsSimpleEscape(nxt) == nxt \in {Q, BSL, "/", "n", "r", "t"}

\* (mutation) the escaped character itself is pushed
Unescape_Raw(nxt) == nxt

Unescape(nxt) ==
    CASE nxt = Q -> Q
      [] nxt = BSL -> BSL
      [] nxt = "/" -> "/"
      [] nxt = "n" -> "LF"
      [] nxt = "r" -> "CR"
      [] nxt = "t" -> "TAB"

\* (mutation) no lookahead: backslash-b and backslash-f are always JSON escapes
IsLatexEscape_NoLookahead(json, idx, nxt) == FALSE

\* \b \f followed by a letter: LaTeX (\beta, \frac), not backspace/form-feed
IsLatexEscape(json, idx, nxt) ==
    /\ nxt \in {"b", "f"}
    /\ idx + 2 <= Len(json)
    /\ IsLetter(json[idx + 2])

ControlOf(nxt) == IF nxt = "b" THEN "BS" ELSE "FF"

\* (mutation) an ordinary character is pushed without advancing the index
ScanStep_NoAdvance(json, idx, acc) ==
    LET ch == json[idx] IN
    IF ch = BSL /\ idx + 1 <= Len(json)
    THEN [i |-> idx + 2, chars |-> acc \o <<BSL, json[idx + 1]>>, brk |-> FALSE]
    ELSE IF ch = Q
    THEN [i |-> idx, chars |-> acc, brk |-> TRUE]
    ELSE [i |-> idx, chars |-> Append(acc, ch), brk |-> FALSE]

\* (mutation) an unrecognised escape loses its backslash
ScanStep_DropOther(json, idx, acc) ==
    LET ch == json[idx] IN
    IF ch = BSL /\ idx + 1 <= Len(json)
    THEN LET nxt == json[idx + 1] IN
         IF IsSimpleEscape(nxt)
         THEN [i |-> idx + 2, chars |-> Append(acc, Unescape(nxt)), brk |-> FALSE]
         ELSE IF IsLatexEscape(json, idx, nxt)
         THEN [i |-> idx + 2, chars |-> acc \o <<BSL, nxt>>, brk |-> FALSE]
         ELSE IF nxt \in {"b", "f"}
         THEN [i |-> idx + 2, chars |-> Append(acc, ControlOf(nxt)), brk |-> FALSE]
         ELSE [i |-> idx + 2, chars |-> Append(acc, nxt), brk |-> FALSE]
    ELSE IF ch = Q
    THEN [i |-> idx, chars |-> acc, brk |-> TRUE]
    ELSE [i |-> idx + 1, chars |-> Append(acc, ch), brk |-> FALSE]

\* one iteration of extractField's while loop, entered with idx <= Len(json)
ScanStep(json, idx, acc) ==
    LET ch == json[idx] IN
    IF ch = BSL /\ idx + 1 <= Len(json)
    THEN LET nxt == json[idx + 1] IN
         IF IsSimpleEscape(nxt)
         THEN [i |-> idx + 2, chars |-> Append(acc, Unescape(nxt)), brk |-> FALSE]
         ELSE IF IsLatexEscape(json, idx, nxt)
         THEN [i |-> idx + 2, chars |-> acc \o <<BSL, nxt>>, brk |-> FALSE]
         ELSE IF nxt \in {"b", "f"}
         THEN [i |-> idx + 2, chars |-> Append(acc, ControlOf(nxt)), brk |-> FALSE]
         ELSE [i |-> idx + 2, chars |-> acc \o <<BSL, nxt>>, brk |-> FALSE]
    ELSE IF ch = Q
    THEN [i |-> idx, chars |-> acc, brk |-> TRUE]
    ELSE [i |-> idx + 1, chars |-> Append(acc, ch), brk |-> FALSE]

RECURSIVE ScanFrom(_, _, _)
ScanFrom(json, idx, acc) ==
    IF idx > Len(json) THEN acc
    ELSE LET s == ScanStep(json, idx, acc) IN
         IF s.brk THEN acc ELSE ScanFrom(json, s.i, s.chars)

\* extractField(json, field): the decoded value, NULL when the key is absent
extractField(json, field) ==
    LET start == keyReExec(json, field) IN
    IF start = 0 THEN NULL ELSE ScanFrom(json, start, <<>>)

------------------------------------------------------------------------------
\* tryRecoverAction

\* !v for a string or null
Falsy(v) == v = NULL \/ v = <<>>

\* v || undefined
OrUndefined(v) == IF Falsy(v) THEN UNDEFINED ELSE v

\* (mutation) only the opening brace is looked at
QuickReject_BraceOnly(t) == ~HasAt(t, 1, <<"{">>)

\* the quick rejection
QuickReject(t) ==
    \/ ~HasAt(t, 1, <<"{">>)
    \/ ~Includes(t, <<Q>> \o ActionKey \o <<Q>>)

\* (mutation) only the action is required
RequiredMissing_ActionOnly(action, message) == Falsy(action)

\* if (!action || !message) return null
RequiredMissing(action, message) == Falsy(action) \/ Falsy(message)

\* return null
NullResult ==
    [null |-> TRUE, action |-> NULL, message |-> NULL,
     content |-> UNDEFINED, filename |-> UNDEFINED]

\* return { action, message, content: ... || undefined, filename: ... || undefined }
Payload(action, message, content, filename) ==
    [null |-> FALSE, action |-> action, message |-> message,
     content |-> OrUndefined(content), filename |-> OrUndefined(filename)]

tryRecoverAction(t) ==
    LET tr == Trim(t) IN
    IF QuickReject(tr) THEN NullResult
    ELSE LET action == extractField(tr, ActionKey)
             message == extractField(tr, MessageKey) IN
         IF RequiredMissing(action, message) THEN NullResult
         ELSE Payload(action, message,
                      extractField(tr, ContentKey), extractField(tr, FilenameKey))

------------------------------------------------------------------------------
\* tryRecoverAction as a step machine: one action per statement, one LoopStep
\* per iteration of extractField's while loop

\* "field" as it is written in the text
K(field) == <<Q>> \o field \o <<Q>>

MaxPieces == 3

\* the fragments from which field values are put together
Pieces ==
    { <<BSL>>, <<Q>>, <<"/">>, <<"n">>, <<"r">>, <<"t">>, <<"b">>, <<"f">>,
      <<"u">>, <<"1">>, <<"u","0","0","4","1">> }

RECURSIVE Bodies(_)
Bodies(n) ==
    IF n = 0 THEN { <<>> }
    ELSE LET S == Bodies(n - 1) IN S \cup { s \o p : s \in S, p \in Pieces }

Edit == <<"e","d","i","t">>
Create == <<"c","r","e","a","t","e">>

\* the texts around the field value under test
MessagePrefix ==
    <<"{">> \o K(ActionKey) \o <<":", Q>> \o Edit \o <<Q, ",">>
        \o K(MessageKey) \o <<":", Q>>
ActionPrefix == <<"{">> \o K(ActionKey) \o <<":", Q>>
ActionSuffix == <<Q, ",">> \o K(MessageKey) \o <<":", Q, "m", Q, "}">>
ContentPrefix ==
    <<"{">> \o K(ActionKey) \o <<":", Q>> \o Create \o <<Q, ",">>
        \o K(MessageKey) \o <<":", Q, "m", Q, ",">>
        \o K(ContentKey) \o <<":", Q>>
FilenamePrefix ==
    <<" ", "{">> \o K(MessageKey) \o <<" ", ":", " ", Q, "m", Q, ",">>
        \o K(ActionKey) \o <<":", " ", Q>> \o Edit \o <<Q, ",">>
        \o K(FilenameKey) \o <<":", Q>>
NoActionPrefix == <<"{">> \o K(MessageKey) \o <<":", Q>>
BadActionPrefix ==
    <<"{">> \o K(ActionKey) \o <<":", "5", ",">> \o K(MessageKey) \o <<":", Q>>

\* Use \beta and \frac{1}{2}
LatexExample ==
    MessagePrefix
        \o <<"U","s","e"," ",BSL,"b","e","t","a"," ","a","n","d"," ",
             BSL,"f","r","a","c","{","1","}","{","2","}">>
        \o <<Q, "}">>
\* line1\nline2
NewlineExample ==
    MessagePrefix
        \o <<"l","i","n","e","1",BSL,"n","l","i","n","e","2">> \o <<Q, "}">>
ProseExample == <<"J","u","s","t"," ","a"," ","n","o","r","m","a","l",".">>

Texts ==
    { MessagePrefix \o b : b \in Bodies(MaxPieces) }
        \cup { MessagePrefix \o b \o <<Q, "}">> : b \in Bodies(MaxPieces) }
        \cup { ActionPrefix \o b \o ActionSuffix : b \in Bodies(MaxPieces - 1) }
        \cup { ActionPrefix \o b : b \in Bodies(MaxPieces - 1) }
        \cup { ContentPrefix \o b \o <<Q, "}", " ">> : b \in Bodies(MaxPieces - 1) }
        \cup { FilenamePrefix \o b : b \in Bodies(MaxPieces - 1) }
        \cup { NoActionPrefix \o b : b \in Bodies(MaxPieces - 1) }
        \cup { BadActionPrefix \o b : b \in Bodies(MaxPieces - 1) }
        \cup Bodies(MaxPieces - 1)
        \cup { LatexExample, NewlineExample, ProseExample, <<>>, <<" ">>,
               <<"x">> \o NewlineExample }
        \cup { ActionPrefix \o b \o ActionSuffix : b \in Bodies(MaxPieces - 1) }
        \cup { ContentPrefix \o b \o <<Q, "}", " ">> : b \in Bodies(MaxPieces - 1) }
        \cup { FilenamePrefix \o b : b \in Bodies(MaxPieces - 1) }
        \cup { NoActionPrefix \o b : b \in Bodies(MaxPieces - 2) }
        \cup { BadActionPrefix \o b : b \in Bodies(MaxPieces - 2) }
        \cup Bodies(MaxPieces - 2)

NoVals == [k \in 1..4 |-> NULL]

MaxMsgs == 2
MaxParts == 2
MaxSwitches == 1
MaxRenders == 2

\* the keys of the ActionCard instances: message id (Message's key) and part
\* index (the key inside Message)
CardKeys == (1..MaxMsgs) \X (1..MaxParts)

\* no ActionCard is mounted at a key
NoCard == [mounted |-> FALSE, appliedRef |-> FALSE, deps |-> <<>>, renders |-> 0]

\* no response is being streamed
NoResp == [id |-> 0, parts |-> <<>>]

\* the chat panel before anything is shown
ChatIdle ==
    /\ messages = <<>>
    /\ resp = NoResp
    /\ chatStatus = "ready"
    /\ onFileAction = "h1"
    /\ activeTitle = <<"T">>
    /\ cards = [k \in CardKeys |-> NoCard]
    /\ shown = <<>>
    /\ calls = <<>>
    /\ nextId = 1
    /\ switches = 0

\* the Segmenter before the first chunk
SegStart ==
    [mode |-> "OUTSIDE", lookback |-> <<>>, segments |-> <<>>, open |-> FALSE,
     out |-> <<>>, straddled |-> FALSE]

\* the Decoder before the first read
DecoderStart ==
    [buffer |-> <<>>, parts |-> <<>>, open |-> FALSE, midEscape |-> FALSE]

NoNote == "none"
NoUpdate == [noteId |-> NoNote, content |-> NoNote, by |-> "none"]

\* the workspace with no note loaded
WorkspaceStart ==
    [notes |-> {}, activeNoteId |-> NoNote, activeNoteRef |-> NoNote,
     editorContent |-> NoNote, saveDebounceRef |-> <<>>, pending |-> {},
     lastUpdate |-> NoUpdate, started |-> 0, deleted |-> {}]

NoChat == "none"

\* the chat panel with no chat
ChatPanelStart ==
    [activeChatId |-> NoChat, messages |-> <<>>, status |-> "ready",
     prevStatusRef |-> "ready", loading |-> {}, stored |-> <<>>,
     saved |-> <<>>, exchange |-> 0, streamOf |-> NoChat, switched |-> 0,
     written |-> 0, saveCalls |-> 0]

\* the lists of the sidebar that ask twice before deleting
Lists == {"notes", "pdfs", "docs"}
Items == {"a", "b"}
NoItem == "none"

\* a list with both items, nothing armed, no timer, nothing deleted
ConfirmStart ==
    [l \in Lists |->
       [items |-> Items, confirmId |-> NoItem, timers |-> 0,
        lastClick |-> NoItem, expired |-> FALSE, requested |-> <<>>]]

\* the layout before its first load: no note listed, nothing requested
ListingStart ==
    [notes |-> <<>>, backend |-> <<>>, requests |-> {}, actions |-> {},
     used |-> {}, ops |-> 0, resynced |-> "none"]

FileIds == {"f1", "f2"}

\* a file the backend has not seen
NoFile == [state |-> "none", chunks |-> 0, count |-> 0]

\* the drawer before any upload: no naming dialog, no pending ingestion, no
\* document listed
IngestStart ==
    [pendingUpload |-> "none", pendingIngestions |-> <<>>,
     docs |-> [f \in FileIds |-> 0], backend |-> [f \in FileIds |-> NoFile]]

\* nothing happens in the sidebar
SideIdle ==
    /\ confirm = ConfirmStart
    /\ listing = ListingStart
    /\ ingest = IngestStart

\* nothing happens in the workspace and in the chat panel
UiIdle ==
    /\ workspace = WorkspaceStart
    /\ chatPanel = ChatPanelStart
    /\ SideIdle

\* no stream is being segmented, encoded or decoded
StreamIdle ==
    /\ segInput = <<>>
    /\ segPos = 0
    /\ segmenter = SegStart
    /\ segDone = TRUE
    /\ rawChunks = <<>>
    /\ fragments = <<>>
    /\ encDone = TRUE
    /\ transport = <<>>
    /\ decoder = DecoderStart
    /\ injected = 0

\* the proxy route, not handling any request
ProxyIdle ==
    /\ phase = "idle"
    /\ timeout = "cleared"
    /\ aborted = FALSE
    /\ clock = 0
    /\ sent = 0
    /\ status = 0
    /\ errorMsg = ""

InitExtract ==
    /\ UiIdle
    /\ StreamIdle
    /\ ProxyIdle
    /\ ChatIdle
    /\ text \in Texts
    /\ pc = "quick"
    /\ trimmed = <<>>
    /\ fidx = 0
    /\ i = 0
    /\ chars = <<>>
    /\ vals = NoVals
    /\ result = NullResult

\* const trimmed = text.trim(); the quick rejection
Quick ==
    /\ pc = "quick"
    /\ trimmed' = Trim(text)
    /\ IF QuickReject(Trim(text))
       THEN /\ pc' = "done"
            /\ result' = NullResult
            /\ fidx' = fidx
       ELSE /\ pc' = "match"
            /\ fidx' = 1
            /\ result' = result
    /\ UNCHANGED <<text, i, chars, vals>>
    /\ UNCHANGED <<proxyVars, chatVars, streamVars, uiVars>>

\* extractField returns v for the current field: what tryRecoverAction does next
FieldReturns(v) ==
    LET nv == [vals EXCEPT ![fidx] = v] IN
    /\ vals' = nv
    /\ IF fidx = 2 /\ RequiredMissing(nv[1], nv[2])
       THEN /\ pc' = "done"
            /\ result' = NullResult
            /\ fidx' = fidx
       ELSE IF fidx = 4
       THEN /\ pc' = "done"
            /\ result' = Payload(nv[1], nv[2], nv[3], nv[4])
            /\ fidx' = fidx
       ELSE /\ pc' = "match"
            /\ fidx' = fidx + 1
            /\ result' = result

\* keyRe.exec(json); if (!m) return null
Match ==
    /\ pc = "match"
    /\ \E start \in {keyReExec(trimmed, FieldOrder[fidx])} :
       IF start = 0
       THEN /\ FieldReturns(NULL)
            /\ UNCHANGED <<i, chars>>
       ELSE /\ pc' = "scan"
            /\ i' = start
            /\ chars' = <<>>
            /\ UNCHANGED <<fidx, vals, result>>
    /\ UNCHANGED <<text, trimmed>>
    /\ UNCHANGED <<proxyVars, chatVars, streamVars, uiVars>>

\* one iteration of while (i < json.length)
LoopStep ==
    /\ pc = "scan"
    /\ i <= Len(trimmed)
    /\ \E s \in {ScanStep(trimmed, i, chars)} :
       IF s.brk
       THEN /\ FieldReturns(chars)
            /\ UNCHANGED <<i, chars>>
       ELSE /\ i' = s.i
            /\ chars' = s.chars
            /\ UNCHANGED <<pc, fidx, vals, result>>
    /\ UNCHANGED <<text, trimmed>>
    /\ UNCHANGED <<proxyVars, chatVars, streamVars, uiVars>>

\* the loop condition fails: return chars.join("")
LoopExit ==
    /\ pc = "scan"
    /\ i > Len(trimmed)
    /\ FieldReturns(chars)
    /\ UNCHANGED <<text, trimmed, i, chars>>
    /\ UNCHANGED <<proxyVars, chatVars, streamVars, uiVars>>

NextExtract == Quick \/ Match \/ LoopStep \/ LoopExit

SpecExtract == InitExtract /\ [][NextExtract]_vars

------------------------------------------------------------------------------
\* POST /api/chat: the proxy route

\* setTimeout(() => controller.abort(), 120_000): the delay, in clock ticks of
\* one minute
Deadline == 2

MaxClock == 6
MaxChunks == 5

\* the statuses of a backend response that is not OK
BackendErrors == {404, 500}

ExtractIdle ==
    /\ text = <<>>
    /\ pc = "done"
    /\ trimmed = <<>>
    /\ fidx = 0
    /\ i = 0
    /\ chars = <<>>
    /\ vals = NoVals
    /\ result = NullResult

\* const controller = new AbortController(); const timeout = setTimeout(...);
\* fetch(...) is started
InitProxy ==
    /\ UiIdle
    /\ StreamIdle
    /\ ExtractIdle
    /\ ChatIdle
    /\ phase = "fetching"
    /\ timeout = "armed"
    /\ aborted = FALSE
    /\ clock = 0
    /\ sent = 0
    /\ status = 0
    /\ errorMsg = ""

\* the exchange is over: a response was returned and its body is complete
Finished == phase \in {"finished", "failed"}

\* time passes; a timer that is due runs before more time passes
Tick ==
    /\ clock < MaxClock
    /\ ~(timeout = "armed" /\ clock >= Deadline)
    /\ clock' = clock + 1
    /\ UNCHANGED <<phase, timeout, aborted, sent, status, errorMsg>>
    /\ UNCHANGED <<extractVars, chatVars, streamVars, uiVars>>

\* the timer callback: controller.abort()
TimeoutFires ==
    /\ timeout = "armed"
    /\ clock >= Deadline
    /\ timeout' = "fired"
    /\ aborted' = TRUE
    /\ UNCHANGED <<phase, clock, sent, status, errorMsg>>
    /\ UNCHANGED <<extractVars, chatVars, streamVars, uiVars>>

\* (mutation) the abort is reported like any other failure
CatchAbort_Generic ==
    /\ phase = "fetching"
    /\ aborted
    /\ timeout' = (IF timeout = "armed" THEN "cleared" ELSE timeout)
    /\ phase' = "failed"
    /\ status' = 504
    /\ errorMsg' = "Backend request failed"
    /\ UNCHANGED <<aborted, clock, sent>>
    /\ UNCHANGED <<extractVars, chatVars, streamVars, uiVars>>

\* fetch rejects with an AbortError: the catch block
CatchAbort ==
    /\ phase = "fetching"
    /\ aborted
    /\ timeout' = (IF timeout = "armed" THEN "cleared" ELSE timeout)
    /\ phase' = "failed"
    /\ status' = 504
    /\ errorMsg' = "Backend request timed out"
    /\ UNCHANGED <<aborted, clock, sent>>
    /\ UNCHANGED <<extractVars, chatVars, streamVars, uiVars>>

\* fetch rejects for another reason: the catch block
CatchFailure ==
    /\ phase = "fetching"
    /\ ~aborted
    /\ timeout' = "cleared"
    /\ phase' = "failed"
    /\ status' = 504
    /\ errorMsg' = "Backend request failed"
    /\ UNCHANGED <<aborted, clock, sent>>
    /\ UNCHANGED <<extractVars, chatVars, streamVars, uiVars>>

\* fetch resolves with a response that is not OK: clearTimeout, error response
ResponseNotOk ==
    /\ phase = "fetching"
    /\ ~aborted
    /\ \E st \in BackendErrors : status' = st
    /\ timeout' = "cleared"
    /\ phase' = "failed"
    /\ errorMsg' = "Backend request failed"
    /\ UNCHANGED <<aborted, clock, sent>>
    /\ UNCHANGED <<extractVars, chatVars, streamVars, uiVars>>

\* fetch resolves with an OK response: clearTimeout, return new Response(response.body)
ResponseOk ==
    /\ phase = "fetching"
    /\ ~aborted
    /\ timeout' = "cleared"
    /\ phase' = "streaming"
    /\ status' = 200
    /\ UNCHANGED <<aborted, clock, sent, errorMsg>>
    /\ UNCHANGED <<extractVars, chatVars, streamVars, uiVars>>

\* the backend sends a chunk of the body, which is passed on
StreamChunk ==
    /\ phase = "streaming"
    /\ ~aborted
    /\ sent < MaxChunks
    /\ sent' = sent + 1
    /\ UNCHANGED <<phase, timeout, aborted, clock, status, errorMsg>>
    /\ UNCHANGED <<extractVars, chatVars, streamVars, uiVars>>

\* the backend ends the body
StreamEnd ==
    /\ phase = "streaming"
    /\ ~aborted
    /\ phase' = "finished"
    /\ UNCHANGED <<timeout, aborted, clock, sent, status, errorMsg>>
    /\ UNCHANGED <<extractVars, chatVars, streamVars, uiVars>>

NextProxy ==
    \/ Tick
    \/ TimeoutFires
    \/ CatchAbort
    \/ CatchFailure
    \/ ResponseNotOk
    \/ ResponseOk
    \/ StreamChunk
    \/ StreamEnd

SpecProxy == InitProxy /\ [][NextProxy]_vars

\* ==========================================================================
\* ChatPanel, Message and ActionCard: which parts show an ActionCard, and
\* when a mounted ActionCard calls onFileAction
\* ==========================================================================

\* the data of a part that is not a data-action part
NoData ==
    [action |-> <<>>, note_id |-> <<>>, title |-> <<>>, filename |-> <<>>,
     markdown |-> <<>>]

\* {"action":"edit","message":"m","content":"c"}
EditJson ==
    MessagePrefix \o <<"m", Q, ",">> \o K(ContentKey) \o <<":", Q, "c", Q, "}">>

\* {"action":"edit","message":"m","content":"c : EditJson not yet complete
EditJsonPartial == SubSeq(EditJson, 1, Len(EditJson) - 2)

\* a reasoning part whose text is an action object
ReasoningPart == [type |-> "reasoning", text |-> EditJson, data |-> NoData]
ProsePart == [type |-> "text", text |-> ProseExample, data |-> NoData]
JsonPart == [type |-> "text", text |-> EditJson, data |-> NoData]
\* a text part whose text is still arriving
PartialPart == [type |-> "text", text |-> EditJsonPartial, data |-> NoData]

\* a data-action part as the backend sends it after writing the note
DataPart ==
    [type |-> "data-action", text |-> <<>>,
     data |-> [action |-> <<"edit_current">>, note_id |-> <<"n1">>,
               title |-> <<"N">>, filename |-> <<>>, markdown |-> <<"c">>]]

\* a data-action part that carries no note_id
DataPartNoId ==
    [type |-> "data-action", text |-> <<>>,
     data |-> [action |-> <<"create_new">>, note_id |-> <<>>,
               title |-> <<>>, filename |-> <<"F">>, markdown |-> <<"c">>]]

\* the parts a response is streamed from
PartPool ==
    {ReasoningPart, ProsePart, JsonPart, PartialPart, DataPart, DataPartNoId}

\* the identities the onFileAction prop takes; handleFileAction is rebuilt
\* when viewMode changes
Handlers == {"none", "h1", "h2"}
Titles == {<<"T">>, <<"U">>}

\* a || b on strings
Or(a, b) == IF a # <<>> THEN a ELSE b

\* tryRecoverAction on the text of each part of the pool
Recovered == [t \in {p.text : p \in PartPool} |-> tryRecoverAction(t)]

\* no ActionCard is rendered for the part
NoProps == [card |-> FALSE]

\* (mutation) a card is shown for every recovered payload with content
RecoveredProps_AnyAction(recovered, handler, title) ==
    IF ~recovered.null /\ recovered.content # UNDEFINED
    THEN [card |-> TRUE,
          action |-> IF recovered.action = Edit
                     THEN <<"edit_current">> ELSE <<"create_new">>,
          filename |-> IF recovered.filename # UNDEFINED
                       THEN recovered.filename ELSE title,
          markdown |-> recovered.content,
          noteId |-> <<>>,
          noteTitle |-> <<>>,
          onFileAction |-> handler]
    ELSE NoProps

\* the props of the ActionCard shown for a recovered payload; NoProps when
\* Message shows none for it
RecoveredProps(recovered, handler, title) ==
    IF /\ ~recovered.null
       /\ recovered.action = Edit \/ recovered.action = Create
       /\ recovered.content # UNDEFINED
    THEN [card |-> TRUE,
          action |-> IF recovered.action = Edit
                     THEN <<"edit_current">> ELSE <<"create_new">>,
          filename |-> IF recovered.filename # UNDEFINED
                       THEN recovered.filename ELSE title,
          markdown |-> recovered.content,
          noteId |-> <<>>,
          noteTitle |-> <<>>,
          onFileAction |-> handler]
    ELSE NoProps

\* the props of the ActionCard shown for a data-action part
DataProps(data, handler, title) ==
    [card |-> TRUE,
     action |-> data.action,
     filename |-> Or(data.filename, title),
     markdown |-> data.markdown,
     noteId |-> data.note_id,
     noteTitle |-> data.title,
     onFileAction |-> handler]

\* the props Message gives the ActionCard of a part; NoProps when the part
\* renders no ActionCard
CardProps(part, handler, title) ==
    IF part.type = "text"
    THEN RecoveredProps(Recovered[part.text], handler, title)
    ELSE IF part.type = "data-action"
    THEN DataProps(part.data, handler, title)
    ELSE NoProps

\* (mutation) the message of the result is shown whatever the result
TextElement_NoFallback(txt, recovered, handler, title) ==
    [component |-> "AnimatedText", content |-> recovered.message,
     card |-> FALSE]

\* what Message renders for a text part: the message of the recovered payload
\* and, for an edit or create with content, an ActionCard; the text itself
\* when nothing is recovered
TextElement(txt, recovered, handler, title) ==
    IF recovered.null
    THEN [component |-> "AnimatedText", content |-> txt, card |-> FALSE]
    ELSE [component |-> "AnimatedText", content |-> recovered.message,
          card |-> RecoveredProps(recovered, handler, title).card]

\* what Message renders for a part
Element(part, handler, title) ==
    IF part.type = "reasoning"
    THEN [component |-> "Thought", content |-> part.text, card |-> FALSE]
    ELSE IF part.type = "text"
    THEN TextElement(part.text, Recovered[part.text], handler, title)
    ELSE IF part.type = "data-action"
    THEN [component |-> "ActionCard", content |-> <<>>, card |-> TRUE]
    ELSE [component |-> "null", content |-> <<>>, card |-> FALSE]

\* the effect of ActionCard returns early
EffectSkips(card, props) ==
    card.appliedRef \/ props.noteId = <<>> \/ props.onFileAction = "none"

\* the argument the effect gives onFileAction
FileActionData(props) ==
    [action |-> props.action, note_id |-> props.noteId,
     title |-> Or(props.noteTitle, props.filename),
     filename |-> props.filename, markdown |-> props.markdown]

\* the dependency list of the effect
Deps(props) ==
    <<props.action, props.filename, props.markdown, props.noteId,
      props.noteTitle, props.onFileAction>>

\* the effect of a card runs on mount and whenever a dependency differs from
\* the last render, and calls onFileAction unless it returns early
Fires(base, props) ==
    /\ ~base.mounted \/ base.deps # Deps(props)
    /\ ~EffectSkips(base, props)

\* (mutation) every render of the card sets the latch
Rendered_Latched(base, props, fires) ==
    [mounted |-> TRUE,
     appliedRef |-> TRUE,
     deps |-> Deps(props),
     renders |-> IF base.renders < MaxRenders
                 THEN base.renders + 1 ELSE base.renders]

\* the card after a render with the props
Rendered(base, props, fires) ==
    [mounted |-> TRUE,
     appliedRef |-> base.appliedRef \/ fires,
     deps |-> Deps(props),
     renders |-> IF base.renders < MaxRenders
                 THEN base.renders + 1 ELSE base.renders]

\* the cards and calls acc after the ActionCard at the key is rendered with
\* the props: mounted or kept, with its effect run
RenderCard(key, base, props, fires, acc) ==
    [cards |-> [acc.cards EXCEPT ![key] = Rendered(base, props, fires)],
     calls |-> IF fires
               THEN Append(acc.calls,
                           [msg |-> key[1], part |-> key[2],
                            data |-> FileActionData(props)])
               ELSE acc.calls]

\* the card instance React finds at the key: the mounted one, or a new one
Instance(old, key) == IF old[key].mounted THEN old[key] ELSE NoCard

\* the part at the key is rendered with the props
RenderWith(key, base, props, acc) ==
    IF ~props.card THEN acc
    ELSE RenderCard(key, base, props, Fires(base, props), acc)

\* React renders the part k of the message m; acc holds the cards and the
\* calls of the render so far
RenderPart(m, k, handler, title, old, acc) ==
    RenderWith(<<m.id, k>>, Instance(old, <<m.id, k>>),
               CardProps(m.parts[k], handler, title), acc)

RECURSIVE RenderParts(_, _, _, _, _, _)
RenderParts(m, k, handler, title, old, acc) ==
    IF k > Len(m.parts) THEN acc
    ELSE RenderParts(m, k + 1, handler, title, old,
                     RenderPart(m, k, handler, title, old, acc))

RECURSIVE RenderMessages(_, _, _, _, _, _)
RenderMessages(msgs, n, handler, title, old, acc) ==
    IF n > Len(msgs) THEN acc
    ELSE RenderMessages(msgs, n + 1, handler, title, old,
                        RenderParts(msgs[n], 1, handler, title, old, acc))

\* ChatPanel renders the messages: a Message per message, keyed by its id,
\* the parts keyed by their index; a card whose key is not rendered unmounts
Render(msgs, handler, title) ==
    RenderMessages(msgs, 1, handler, title, cards,
                   [cards |-> [key \in CardKeys |-> NoCard], calls |-> calls])

\* the panel renders msgs with the props handler and title
Shows(msgs, handler, title) ==
    /\ messages' = msgs
    /\ onFileAction' = handler
    /\ activeTitle' = title
    /\ shown' = [n \in 1..Len(msgs) |->
                    [k \in 1..Len(msgs[n].parts) |->
                        Element(msgs[n].parts[k], handler, title)]]
    /\ \E r \in {Render(msgs, handler, title)} :
          /\ cards' = r.cards
          /\ calls' = r.calls

InitChat ==
    /\ UiIdle
    /\ StreamIdle
    /\ ExtractIdle
    /\ ProxyIdle
    /\ ChatIdle

\* handleSend: sendMessage starts the assistant message of a new response
sendMessage ==
    /\ chatStatus = "ready"
    /\ nextId <= MaxMsgs
    /\ chatStatus' = "streaming"
    /\ resp' = [id |-> nextId, parts |-> <<>>]
    /\ nextId' = nextId + 1
    /\ UNCHANGED <<messages, onFileAction, activeTitle, cards, shown, calls,
                   switches>>
    /\ UNCHANGED <<extractVars, proxyVars, streamVars, uiVars>>

\* the streamed message with one more part, put where useChat writes it: in
\* place of the last message when that has its id, at the end otherwise
Written(msg) ==
    IF messages # <<>> /\ messages[Len(messages)].id = msg.id
    THEN [messages EXCEPT ![Len(messages)] = msg]
    ELSE Append(messages, msg)

\* a stream update: the response gets its next part and the panel re-renders
StreamWrite ==
    /\ chatStatus = "streaming"
    /\ Len(resp.parts) < MaxParts
    /\ \E p \in PartPool :
          /\ resp' = [resp EXCEPT !.parts = Append(@, p)]
          /\ Shows(Written(resp'), onFileAction, activeTitle)
    /\ UNCHANGED <<chatStatus, nextId, switches>>
    /\ UNCHANGED <<extractVars, proxyVars, streamVars, uiVars>>

\* s is the beginning of t, and shorter
IsProperPrefix(s, t) == Len(s) < Len(t) /\ SubSeq(t, 1, Len(s)) = s

\* a stream update: more text arrives for the last part of the response
StreamDelta ==
    /\ chatStatus = "streaming"
    /\ resp.parts # <<>>
    /\ \E p \in PartPool :
          /\ p.type = resp.parts[Len(resp.parts)].type
          /\ IsProperPrefix(resp.parts[Len(resp.parts)].text, p.text)
          /\ resp' = [resp EXCEPT !.parts[Len(resp.parts)] = p]
          /\ Shows(Written(resp'), onFileAction, activeTitle)
    /\ UNCHANGED <<chatStatus, nextId, switches>>
    /\ UNCHANGED <<extractVars, proxyVars, streamVars, uiVars>>

\* the response ends
StreamFinish ==
    /\ chatStatus = "streaming"
    /\ chatStatus' = "ready"
    /\ resp' = NoResp
    /\ UNCHANGED <<messages, onFileAction, activeTitle, cards, shown, calls,
                   nextId, switches>>
    /\ UNCHANGED <<extractVars, proxyVars, streamVars, uiVars>>

\* the parent re-renders the panel with another onFileAction identity or
\* another activeTitle
Rerender ==
    /\ \E h \in Handlers, t \in Titles :
          /\ <<h, t>> # <<onFileAction, activeTitle>>
          /\ Shows(messages, h, t)
    /\ UNCHANGED <<resp, chatStatus, nextId, switches>>
    /\ UNCHANGED <<extractVars, proxyVars, streamVars, uiVars>>

\* switchChat: setMessages([]) empties the list, every Message unmounts
switchChat ==
    /\ switches < MaxSwitches
    /\ switches' = switches + 1
    /\ Shows(<<>>, onFileAction, activeTitle)
    /\ UNCHANGED <<resp, chatStatus, nextId>>
    /\ UNCHANGED <<extractVars, proxyVars, streamVars, uiVars>>

NextChat ==
    \/ sendMessage
    \/ StreamWrite
    \/ StreamDelta
    \/ StreamFinish
    \/ Rerender
    \/ switchChat

SpecChat == InitChat /\ [][NextChat]_vars

\* one response from its start to its end: the panel right after the first
\* sendMessage
InitView ==
    /\ UiIdle
    /\ StreamIdle
    /\ ExtractIdle
    /\ ProxyIdle
    /\ messages = <<>>
    /\ resp = [id |-> 1, parts |-> <<>>]
    /\ chatStatus = "streaming"
    /\ onFileAction = "h1"
    /\ activeTitle = <<"T">>
    /\ cards = [k \in CardKeys |-> NoCard]
    /\ shown = <<>>
    /\ calls = <<>>
    /\ nextId = 2
    /\ switches = 0

NextView ==
    \/ StreamWrite
    \/ StreamDelta
    \/ StreamFinish
    \/ Rerender

SpecView == InitView /\ [][NextView]_vars

\* how often onFileAction was called for the message with the id
CallsFor(id) == Cardinality({n \in 1..Len(calls) : calls[n].msg = id})

\* C9: once the timeout has elapsed and the exchange has not finished, the
\* backend connection is aborted, also while the body is being streamed.
C9_TimeoutCancelsPipeline == (clock > Deadline /\ ~Finished) => aborted

------------------------------------------------------------------------------
\* Properties of the extractor

\* the scan is at the backslash of an escape whose second character is in S
AtEscape(S) ==
    /\ pc = "scan"
    /\ i + 1 <= Len(trimmed)
    /\ trimmed[i] = BSL
    /\ trimmed[i + 1] \in S

\* s up to its first double quote
RECURSIVE UpToQuote(_)
UpToQuote(s) ==
    IF s = <<>> \/ Head(s) = Q THEN <<>> ELSE <<Head(s)>> \o UpToQuote(Tail(s))

\* the raw message value of a text that starts with MessagePrefix
IsMessageText(t) == HasAt(t, 1, MessagePrefix)
MessageBody(t) == SubSeqFrom(t, Len(MessagePrefix) + 1)

\* every backslash of s starts backslash-b or backslash-f followed by a letter
OnlyLatexEscapes(s) ==
    \A k \in 1..Len(s) :
        s[k] = BSL =>
            /\ k + 2 <= Len(s)
            /\ s[k + 1] \in {"b", "f"}
            /\ IsLetter(s[k + 2])

NoControl(s) == \A k \in 1..Len(s) : s[k] \notin {"BS", "FF"}

C1_Step ==
    AtEscape({"b", "f"}) =>
        /\ i' = i + 2
        /\ IF i + 2 <= Len(trimmed) /\ IsLetter(trimmed[i + 2])
           THEN chars' = chars \o <<BSL, trimmed[i + 1]>>
           ELSE chars' = Append(chars, IF trimmed[i + 1] = "b" THEN "BS" ELSE "FF")

C1_Whole ==
    (pc = "done" /\ IsMessageText(text)
        /\ OnlyLatexEscapes(UpToQuote(MessageBody(text)))
        /\ UpToQuote(MessageBody(text)) # <<>>)
    => /\ ~result.null
       /\ result.message = UpToQuote(MessageBody(text))
       /\ NoControl(result.message)

\* C1: at every scan position of every field value, backslash-b / backslash-f
\* is decoded to backspace / form-feed only when the character after it is not
\* a letter or the text ends there; before a letter the two characters are
\* copied literally, so a message whose only escapes are LaTeX commands such as
\* \beta or \frac{1}{2} is returned character for character, without a
\* control character.
C1_LatexPreserved == [][C1_Step]_vars /\ []C1_Whole

C1_Witness ==
    /\ pc = "done"
    /\ text = LatexExample
    /\ ~result.null
    /\ HasAt(result.message, 5, <<BSL,"b","e","t","a">>)
    /\ HasAt(result.message, 15, <<BSL,"f","r","a","c","{","1","}">>)

Denoted(c) ==
    CASE c = Q -> Q
      [] c = BSL -> BSL
      [] c = "/" -> "/"
      [] c = "n" -> "LF"
      [] c = "r" -> "CR"
      [] c = "t" -> "TAB"

C10_Step ==
    AtEscape({Q, BSL, "/", "n", "r", "t"}) =>
        /\ i' = i + 2
        /\ chars' = Append(chars, Denoted(trimmed[i + 1]))

C10_Whole ==
    (pc = "done" /\ text = NewlineExample)
    => /\ ~result.null
       /\ result.message = <<"l","i","n","e","1","LF","l","i","n","e","2">>

\* C10: each of backslash-quote, backslash-backslash, backslash-slash,
\* backslash-n, backslash-r and backslash-t is decoded to the single character
\* it denotes, whatever follows; line1\nline2 comes back with a newline
\* between line1 and line2.
C10_StandardEscapes == [][C10_Step]_vars /\ []C10_Whole

C10_Witness ==
    /\ pc = "done"
    /\ text = NewlineExample
    /\ ~result.null
    /\ Len(result.message) = 11
    /\ result.message[6] = "LF"

\* the characters that make a backslash an escape extractField knows
KnownEscapes == {Q, BSL, "/", "n", "r", "t", "b", "f"}

\* every backslash of s is followed by a character that is no known escape
OnlyOtherEscapes(s) ==
    \A k \in 1..Len(s) :
        s[k] = BSL => (k + 1 <= Len(s) /\ s[k + 1] \notin KnownEscapes)

C11_Step ==
    (pc = "scan" /\ i + 1 <= Len(trimmed) /\ trimmed[i] = BSL
        /\ trimmed[i + 1] \notin KnownEscapes)
    => /\ pc' = "scan"
       /\ i' = i + 2
       /\ chars' = chars \o <<BSL, trimmed[i + 1]>>
       /\ UNCHANGED <<vals, result>>

C11_Whole ==
    (pc = "done" /\ IsMessageText(text)
        /\ OnlyOtherEscapes(UpToQuote(MessageBody(text)))
        /\ UpToQuote(MessageBody(text)) # <<>>)
    => /\ ~result.null
       /\ result.message = UpToQuote(MessageBody(text))

\* C11: at every scan position a backslash followed by a character other
\* than quote, backslash, slash, n, r, t, b, f is copied with that character
\* as two unchanged characters and the scan goes on behind them; a message
\* whose only escapes are of this kind is returned character for character.
C11_OtherEscapesLiteral == [][C11_Step]_vars /\ []C11_Whole

C11_Witness ==
    /\ pc = "done"
    /\ text = MessagePrefix \o <<BSL, "1", "n", Q, "}">>
    /\ ~result.null
    /\ result.message = <<BSL, "1", "n">>

\* the first character of t that is no whitespace is an opening brace
BraceFirst(t) ==
    \E k \in 1..Len(t) :
        /\ t[k] = "{"
        /\ \A j \in 1..(k - 1) : IsSpace(t[j])

\* t holds the word action between double quotes
QuotedAction(t) == Includes(t, <<Q, "a", "c", "t", "i", "o", "n", Q>>)

C12_Step ==
    (pc = "quick" /\ (~BraceFirst(text) \/ ~QuotedAction(text)))
    => (pc' = "done" /\ result' = NullResult)

C12_Whole ==
    (pc = "done" /\ (~BraceFirst(text) \/ ~QuotedAction(text)))
    => (result = NullResult /\ fidx = 0)

\* C12: for a text whose first non-whitespace character is not an opening
\* brace, or that does not hold "action" with its quotes, tryRecoverAction
\* returns null at once, before any field is looked for; a plain sentence
\* yields null.
C12_QuickRejection == [][C12_Step]_vars /\ []C12_Whole

C12_Witness ==
    /\ pc = "done"
    /\ text = ProseExample
    /\ result = NullResult
    /\ fidx = 0

NonEmptyString(v) == v # NULL /\ v # UNDEFINED /\ v # <<>>

\* C3: tryRecoverAction returns null, or an object whose action and message
\* are both non-empty strings and whose content and filename are each a
\* non-empty string or absent.
C3_AllOrNothing ==
    pc = "done" =>
        \/ result = NullResult
        \/ /\ ~result.null
           /\ NonEmptyString(result.action)
           /\ NonEmptyString(result.message)
           /\ result.content = UNDEFINED \/ NonEmptyString(result.content)
           /\ result.filename = UNDEFINED \/ NonEmptyString(result.filename)

\* an action was found, the message was not: null is returned
C3_Witness ==
    /\ pc = "done"
    /\ NonEmptyString(vals[1])
    /\ Falsy(vals[2])
    /\ result = NullResult

\* an upper bound of the number of steps tryRecoverAction still takes
Rank ==
    LET L == Len(text) + 3 IN
    CASE pc = "quick" -> 4 * L + 1
      [] pc = "match" -> (5 - fidx) * L
      [] pc = "scan" -> (5 - fidx) * L - 1 - i
      [] pc = "done" -> 0

C8_Step ==
    /\ Rank' < Rank
    /\ (pc = "scan" /\ pc' = "scan") => (i' > i /\ i' <= Len(trimmed) + 1)

C8_State ==
    /\ Rank >= 0
    /\ pc \in {"quick", "match", "scan", "done"}
    /\ pc = "quick" => ENABLED Quick
    /\ pc = "match" => fidx \in 1..4
    /\ pc = "scan" => (fidx \in 1..4 /\ i >= 1 /\ ENABLED (LoopStep \/ LoopExit))
    /\ pc = "done" =>
           \/ result = NullResult
           \/ ~result.null /\ result.action # NULL /\ result.message # NULL

\* C8: tryRecoverAction always terminates with null or a payload: it is never
\* stuck before it returns, every step lowers a natural-valued bound on the
\* steps left, and every iteration of extractField's loop that does not leave
\* the loop strictly increases the index, which never passes the end of the
\* text by more than one.
C8_Terminates == [][C8_Step]_vars /\ []C8_State

\* a text that ends in a lone backslash inside the message value was scanned
\* to its end
C8_Witness ==
    /\ pc = "done"
    /\ text = MessagePrefix \o <<"1", BSL>>
    /\ ~result.null
    /\ result.message = <<"1", BSL>>

\* Standard JSON string decoding, as the reference of C2

\* the position of the quote that closes a JSON string starting at p, 0 if none
RECURSIVE JsonStringEnd(_, _)
JsonStringEnd(s, p) ==
    IF p > Len(s) THEN 0
    ELSE IF s[p] = Q THEN p
    ELSE IF s[p] = BSL THEN JsonStringEnd(s, p + 2)
    ELSE JsonStringEnd(s, p + 1)

\* s is the inside of a valid JSON string literal
RECURSIVE ValidJsonBody(_)
ValidJsonBody(s) ==
    IF s = <<>> THEN TRUE
    ELSE IF Head(s) = BSL
    THEN /\ Len(s) >= 2
         /\ \/ /\ s[2] \in {Q, BSL, "/", "b", "f", "n", "r", "t"}
               /\ ValidJsonBody(SubSeqFrom(s, 3))
            \/ /\ s[2] = "u"
               /\ Len(s) >= 6
               /\ \A k \in 3..6 : s[k] \in HexDigits
               /\ ValidJsonBody(SubSeqFrom(s, 7))
    ELSE /\ Head(s) \notin {Q, "BS", "FF", "LF", "CR", "TAB"}
         /\ ValidJsonBody(Tail(s))

\* the character with the given four-digit hexadecimal code
CodeUnit(h) ==
    IF h = <<"0","0","4","1">> THEN "A" ELSE "U+" \o h[1] \o h[2] \o h[3] \o h[4]

\* the standard decoding of a valid JSON string body, except that backslash-b
\* and backslash-f before a letter are kept literally (keepLatex) and that
\* backslash-u escapes are kept literally (keepUnicode)
RECURSIVE JsonDecode(_, _, _)
JsonDecode(s, keepLatex, keepUnicode) ==
    IF s = <<>> THEN <<>>
    ELSE IF Head(s) # BSL
    THEN <<Head(s)>> \o JsonDecode(Tail(s), keepLatex, keepUnicode)
    ELSE IF s[2] = "u"
    THEN (IF keepUnicode THEN SubSeq(s, 1, 6) ELSE <<CodeUnit(SubSeq(s, 3, 6))>>)
             \o JsonDecode(SubSeqFrom(s, 7), keepLatex, keepUnicode)
    ELSE IF s[2] \in {"b", "f"}
    THEN (IF keepLatex /\ Len(s) >= 3 /\ IsLetter(s[3])
          THEN <<BSL, s[2]>>
          ELSE <<IF s[2] = "b" THEN "BS" ELSE "FF">>)
             \o JsonDecode(SubSeqFrom(s, 3), keepLatex, keepUnicode)
    ELSE <<Denoted(s[2])>> \o JsonDecode(SubSeqFrom(s, 3), keepLatex, keepUnicode)

\* the message value of the text is a closed, valid JSON string literal
ValidMessageLiteral(t) ==
    /\ IsMessageText(t)
    /\ JsonStringEnd(MessageBody(t), 1) # 0
    /\ ValidJsonBody(SubSeq(MessageBody(t), 1, JsonStringEnd(MessageBody(t), 1) - 1))

RawMessage(t) == SubSeq(MessageBody(t), 1, JsonStringEnd(MessageBody(t), 1) - 1)

\* C2 as stated: on a valid JSON string literal extractField returns what a
\* standard JSON decoder returns, except at backslash-b / backslash-f followed
\* by a letter.
C2_OnlyLatexDiffers ==
    (pc = "done" /\ ValidMessageLiteral(text))
    => vals[2] = JsonDecode(RawMessage(text), TRUE, FALSE)

\* C2 amended: on a valid JSON string literal extractField returns what a
\* standard JSON decoder returns, except at backslash-b / backslash-f followed
\* by a letter and at backslash-u escapes, both of which it copies literally.
C2_LatexAndUnicodeDiffer ==
    (pc = "done" /\ ValidMessageLiteral(text))
    => vals[2] = JsonDecode(RawMessage(text), TRUE, TRUE)

C2_Witness ==
    /\ pc = "done"
    /\ ValidMessageLiteral(text)
    /\ RawMessage(text) = <<BSL, "u", "0", "0", "4", "1">>
    /\ vals[2] = <<BSL, "u", "0", "0", "4", "1">>

\* ==========================================================================
\* Properties of the action application guard
\* ==========================================================================

\* C4: onFileAction is called at most once per message id, whatever
\* re-renders, prop changes, stream updates and remounts happen
C4_AtMostOncePerMessage ==
    \A id \in 1..MaxMsgs : CallsFor(id) <= 1

\* an ActionCard is shown for the part at the key, and was rendered twice or
\* more with its payload
DeliveredTwice(key) ==
    /\ cards[key].mounted
    /\ cards[key].renders >= 2

\* C5: a payload delivered twice under one message id, as a data-action part
\* or recovered from the text of a text part, has caused exactly one call of
\* onFileAction for that message
C5_ExactlyOnce ==
    \A key \in CardKeys :
        (DeliveredTwice(key) /\ onFileAction # "none") => CallsFor(key[1]) = 1

\* Message gets isStreaming for the n-th message: a response is in flight and
\* the message is the last one
IsStreaming(n) == chatStatus = "streaming" /\ n = Len(messages)

\* the positions of the parts shown
PartsShown == {<<n, k>> \in (1..Len(messages)) \X (1..MaxParts) :
                  k <= Len(messages[n].parts)}

\* C13: a reasoning part is shown as a thought with its own text and has no
\* action card, and a text part of a message that is still streaming is shown
\* with its own text, not run through tryRecoverAction
C13_OnlyFinalizedText ==
    \A pos \in PartsShown :
        LET msg == messages[pos[1]]
            part == msg.parts[pos[2]]
            el == shown[pos[1]][pos[2]]
        IN /\ part.type = "reasoning" =>
                  /\ el = [component |-> "Thought", content |-> part.text,
                            card |-> FALSE]
                  /\ ~cards[<<msg.id, pos[2]>>].mounted
           /\ (part.type = "text" /\ IsStreaming(pos[1])) =>
                  /\ el.content = part.text
                  /\ ~el.card

C14_Whole ==
    \A pos \in PartsShown :
        LET part == messages[pos[1]].parts[pos[2]] IN
        (part.type = "text" /\ Recovered[part.text].null)
        => shown[pos[1]][pos[2]] =
               [component |-> "AnimatedText", content |-> part.text,
                card |-> FALSE]

C14_Step ==
    /\ (resp' # resp /\ resp'.id = resp.id) => messages'[Len(messages')] = resp'
    /\ resp' = resp => messages' \in {messages, <<>>}
    /\ resp'.id # resp.id => messages' = messages

\* C14: a text part for which tryRecoverAction returns null is shown with
\* exactly its text, and rendering never changes the text of a part: the
\* messages hold the parts as the stream delivered them
C14_PlainTextFallback == [][C14_Step]_vars /\ []C14_Whole

\* a plain sentence is shown as it is after a re-render
C14_Witness ==
    /\ onFileAction = "h2"
    /\ \E pos \in PartsShown :
          /\ messages[pos[1]].parts[pos[2]] = ProsePart
          /\ shown[pos[1]][pos[2]].content = ProseExample

\* ==========================================================================
\* Segmenter: splits the model's text into reasoning and answer segments at
\* the <think> and </think> markers (backend, services/ollama.py)
\* ==========================================================================

OpenMarker == <<"<", "t", "h", "i", "n", "k", ">">>
CloseMarker == <<"<", "/", "t", "h", "i", "n", "k", ">">>

\* the marker that ends the mode
MarkerOf(mode) == IF mode = "OUTSIDE" THEN OpenMarker ELSE CloseMarker

\* the kind of the text of the mode
KindOf(mode) == IF mode = "OUTSIDE" THEN "Answer" ELSE "Reasoning"

\* the position of the first occurrence of the marker in data, 0 if none
IndexOf(data, marker) ==
    LET S == {p \in 1..Len(data) : HasAt(data, p, marker)} IN
    IF S = {} THEN 0 ELSE CHOOSE p \in S : \A q \in S : p <= q

\* (mutation) nothing is retained between chunks
Keep_None(data, marker) == 0

\* how many trailing characters the lookback buffer retains: at most
\* marker_length - 1
Keep(data, marker) ==
    IF Len(data) < Len(marker) - 1 THEN Len(data) ELSE Len(marker) - 1

\* txt is appended to the open segment, or opens a segment of the current
\* kind; out holds what the call returns: the new text with its kind
Emit(st, txt) ==
    IF txt = <<>> THEN st
    ELSE IF st.open
    THEN [st EXCEPT !.segments[Len(st.segments)].text = @ \o txt,
                    !.out = Append(@, [kind |-> KindOf(st.mode), text |-> txt])]
    ELSE [st EXCEPT !.segments = Append(@, [kind |-> KindOf(st.mode), text |-> txt]),
                    !.out = Append(@, [kind |-> KindOf(st.mode), text |-> txt]),
                    !.open = TRUE]

\* a marker was found: the open segment is closed, the mode changes
Transition(st, acrossJoin) ==
    [st EXCEPT !.mode = IF @ = "OUTSIDE" THEN "INSIDE" ELSE "OUTSIDE",
               !.open = FALSE,
               !.straddled = @ \/ acrossJoin]

\* no marker in data: all but the retained tail goes to the open segment
Retain(st, data, n) ==
    [Emit(st, SubSeq(data, 1, Len(data) - n))
        EXCEPT !.lookback = SubSeqFrom(data, Len(data) - n + 1)]

\* data is scanned for markers, each transition honoured in order; join is
\* the number of leading characters of data that come from the lookback and
\* p the position of the first marker of the mode in data, 0 if none
RECURSIVE Scan(_, _, _)
RECURSIVE ScanAt(_, _, _, _)
ScanAt(st, data, join, p) ==
    IF p = 0
    THEN Retain(st, data, Keep(data, MarkerOf(st.mode)))
    ELSE Scan(Transition(Emit(st, SubSeq(data, 1, p - 1)), p <= join),
              SubSeqFrom(data, p + Len(MarkerOf(st.mode))),
              0)

Scan(st, data, join) == ScanAt(st, data, join, IndexOf(data, MarkerOf(st.mode)))

\* feed(chunk): the chunk is scanned behind the lookback buffer
feed(st, chunk) ==
    Scan([st EXCEPT !.out = <<>>], st.lookback \o chunk, Len(st.lookback))

\* (mutation) what is still held is discarded at the end of the stream
flush_Drop(st) == [st EXCEPT !.out = <<>>, !.lookback = <<>>]

\* flush(): what is still held goes to the open segment as it is
flush(st) == [Emit([st EXCEPT !.out = <<>>], st.lookback) EXCEPT !.lookback = <<>>]

\* the Segmenter after a call, its return value handed to the caller
Returned(st) == [st EXCEPT !.out = <<>>]

MaxSegPieces == 4

\* the fragments the model's text is put together from
SegPieces ==
    { <<"a">>, <<"<">>, <<"<", "t", "h", "i">>, <<"<", "/">>,
      OpenMarker, CloseMarker }

RECURSIVE SegTexts(_)
SegTexts(n) ==
    IF n = 0 THEN { <<>> }
    ELSE LET S == SegTexts(n - 1) IN S \cup { s \o p : s \in S, p \in SegPieces }

\* the states of the other components while the stream is segmented
SegOthersIdle ==
    /\ UiIdle
    /\ ExtractIdle
    /\ ProxyIdle
    /\ ChatIdle
    /\ fragments = <<>>
    /\ encDone = TRUE
    /\ transport = <<>>
    /\ decoder = DecoderStart
    /\ injected = 0

InitSeg ==
    /\ SegOthersIdle
    /\ segInput \in SegTexts(MaxSegPieces)
    /\ segPos = 0
    /\ segmenter = SegStart
    /\ segDone = FALSE
    /\ rawChunks = <<>>

\* the model delivers the next chunk, of any length, and it is fed
SegFeed ==
    /\ ~segDone
    /\ \E n \in 1..(Len(segInput) - segPos) :
          /\ segmenter' =
                Returned(feed(segmenter, SubSeq(segInput, segPos + 1, segPos + n)))
          /\ segPos' = segPos + n
    /\ UNCHANGED <<segInput, segDone, rawChunks, wireVars>>
    /\ UNCHANGED <<extractVars, proxyVars, chatVars, uiVars>>

\* the stream ends
SegFlush ==
    /\ ~segDone
    /\ segPos = Len(segInput)
    /\ segmenter' = Returned(flush(segmenter))
    /\ segDone' = TRUE
    /\ UNCHANGED <<segInput, segPos, rawChunks, wireVars>>
    /\ UNCHANGED <<extractVars, proxyVars, chatVars, uiVars>>

NextSeg ==
    \/ SegFeed
    \/ SegFlush

SpecSeg == InitSeg /\ [][NextSeg]_vars

\* the segments of the whole text fed as one chunk and flushed
OneShot(txt) == flush(feed(SegStart, txt)).segments

\* C6: however the text is split into chunks, the segments after flush are
\* those of the whole text fed as one chunk and flushed
C6_ChunkInvariance ==
    segDone => segmenter.segments = OneShot(segInput)

\* <think>a</think>a was fed with a marker split across two chunks
C6_Witness ==
    /\ segDone
    /\ segInput = OpenMarker \o <<"a">> \o CloseMarker \o <<"a">>
    /\ segmenter.straddled
    /\ segmenter.segments =
          <<[kind |-> "Reasoning", text |-> <<"a">>],
            [kind |-> "Answer", text |-> <<"a">>]>>

\* the text of the segments of one kind, in order
RECURSIVE TextOfKind(_, _)
TextOfKind(segs, kind) ==
    IF segs = <<>> THEN <<>>
    ELSE (IF Head(segs).kind = kind THEN Head(segs).text ELSE <<>>)
            \o TextOfKind(Tail(segs), kind)

\* the characters of txt that belong to kind, read one character at a time
\* from the given mode on, the markers of the mode left out
RECURSIVE Strip(_, _, _)
Strip(txt, mode, kind) ==
    IF txt = <<>> THEN <<>>
    ELSE IF HasAt(txt, 1, MarkerOf(mode))
    THEN Strip(SubSeqFrom(txt, Len(MarkerOf(mode)) + 1),
               IF mode = "OUTSIDE" THEN "INSIDE" ELSE "OUTSIDE", kind)
    ELSE (IF KindOf(mode) = kind THEN <<Head(txt)>> ELSE <<>>)
            \o Strip(Tail(txt), mode, kind)

\* the stream ends inside a reasoning block or with characters held back
EndsOpen ==
    /\ ~segDone
    /\ segDone'
    /\ segmenter.mode = "INSIDE" \/ segmenter.lookback # <<>>

\* what flush does to the segments: the held characters go to the open
\* segment, or open a segment of the kind of the mode; nothing else changes
C16_Step ==
    EndsOpen =>
      LET old == segmenter.segments
          new == segmenter'.segments
          held == segmenter.lookback
      IN  /\ segmenter'.lookback = <<>>
          /\ segmenter'.mode = segmenter.mode
          /\ IF held = <<>> THEN new = old
             ELSE IF segmenter.open
             THEN /\ Len(new) = Len(old)
                  /\ SubSeq(new, 1, Len(old) - 1) = SubSeq(old, 1, Len(old) - 1)
                  /\ new[Len(new)] =
                        [kind |-> KindOf(segmenter.mode),
                         text |-> old[Len(old)].text \o held]
             ELSE new = Append(old, [kind |-> KindOf(segmenter.mode), text |-> held])

\* after flush every character outside the markers is in a segment of its
\* own kind, in order
C16_Whole ==
    segDone =>
      /\ segmenter.lookback = <<>>
      /\ \A kind \in {"Answer", "Reasoning"} :
            TextOfKind(segmenter.segments, kind) = Strip(segInput, "OUTSIDE", kind)

\* C16: when the stream ends inside a reasoning block or with a partial
\* marker held in the lookback buffer, flush emits the open segment with its
\* own kind and all the text received for it: nothing is discarded and no
\* reasoning text ends in an answer segment
C16_FlushAsIs == [][C16_Step]_vars /\ []C16_Whole

\* <think>a<thi ended inside the reasoning block with <thi held back
C16_Witness ==
    /\ segDone
    /\ segInput = OpenMarker \o <<"a">> \o <<"<", "t", "h", "i">>
    /\ segmenter.mode = "INSIDE"
    /\ segmenter.segments =
          <<[kind |-> "Reasoning", text |-> <<"a", "<", "t", "h", "i">>]>>

\* the marker occurs in txt
Contains(txt, marker) == IndexOf(txt, marker) # 0

TagOf(kind) == IF kind = "Answer" THEN "0" ELSE "g"

\* the part type of a tag
TypeOf(tag) == IF tag = "0" THEN "text" ELSE "reasoning"

\* (mutation) no character is escaped
EscapeChar_Plain(c) == <<c>>

\* standard JSON string escaping of one character
EscapeChar(c) ==
    CASE c = Q -> <<BSL, Q>>
      [] c = BSL -> <<BSL, BSL>>
      [] c = "LF" -> <<BSL, "n">>
      [] c = "CR" -> <<BSL, "r">>
      [] c = "TAB" -> <<BSL, "t">>
      [] c = "BS" -> <<BSL, "b">>
      [] c = "FF" -> <<BSL, "f">>
      [] OTHER -> <<c>>

RECURSIVE JsonEscape(_)
JsonEscape(s) ==
    IF s = <<>> THEN <<>> ELSE EscapeChar(Head(s)) \o JsonEscape(Tail(s))

\* encode(segment_fragment): tag, colon, the new text as a JSON string, newline
encode(fragment) ==
    <<TagOf(fragment.kind), ":", Q>> \o JsonEscape(fragment.text) \o <<Q, "LF">>

\* the end-marker lines; their payload is opaque
EndMarkers == <<"e", ":", "{", "}", "LF", "d", ":", "{", "}", "LF">>

\* (mutation) the decoded text always goes to the last part
Accumulate_Merge(dec, type, txt) ==
    IF dec.parts # <<>>
    THEN [dec EXCEPT !.parts[Len(dec.parts)].text = @ \o txt]
    ELSE [dec EXCEPT !.parts = Append(@, [type |-> type, text |-> txt]),
                     !.open = TRUE]

\* the decoded text goes to the accumulating part of its type, or opens a part
Accumulate(dec, type, txt) ==
    IF dec.open /\ dec.parts[Len(dec.parts)].type = type
    THEN [dec EXCEPT !.parts[Len(dec.parts)].text = @ \o txt]
    ELSE [dec EXCEPT !.parts = Append(@, [type |-> type, text |-> txt]),
                     !.open = TRUE]

\* the line is a text or reasoning tag followed by a valid JSON string
IsTextLine(line) ==
    /\ Len(line) >= 4
    /\ line[1] \in {"0", "g"}
    /\ line[2] = ":"
    /\ line[3] = Q
    /\ line[Len(line)] = Q
    /\ ValidJsonBody(SubSeq(line, 4, Len(line) - 1))

\* (mutation) a line that cannot be used closes the accumulating part
decodeLine_Close(dec, line) ==
    IF IsTextLine(line)
    THEN Accumulate(dec, TypeOf(line[1]),
                    JsonDecode(SubSeq(line, 4, Len(line) - 1), FALSE, FALSE))
    ELSE [dec EXCEPT !.open = FALSE]

\* one complete line, without its newline, is decoded: text is accumulated,
\* an end marker closes the accumulation, anything else is dropped
decodeLine(dec, line) ==
    IF IsTextLine(line)
    THEN Accumulate(dec, TypeOf(line[1]),
                    JsonDecode(SubSeq(line, 4, Len(line) - 1), FALSE, FALSE))
    ELSE IF line # <<>> /\ line[1] \in {"e", "d"}
    THEN [dec EXCEPT !.open = FALSE]
    ELSE dec

\* the buffer ends between a backslash and the character it escapes
EndsMidEscape(buf) ==
    /\ buf # <<>>
    /\ buf[Len(buf)] = BSL
    /\ Len(buf) = 1 \/ buf[Len(buf) - 1] # BSL

\* every complete line of buf is decoded in order, the incomplete rest is
\* kept; p is the position of the first newline of buf, 0 if none
RECURSIVE decodeLines(_, _)
RECURSIVE decodeLinesAt(_, _, _)
decodeLinesAt(dec, buf, p) ==
    IF p = 0
    THEN [dec EXCEPT !.buffer = buf,
                     !.midEscape = @ \/ EndsMidEscape(buf)]
    ELSE decodeLines(decodeLine(dec, SubSeq(buf, 1, p - 1)), SubSeqFrom(buf, p + 1))

decodeLines(dec, buf) == decodeLinesAt(dec, buf, IndexOf(buf, <<"LF">>))

\* feed(bytes): the bytes are put behind the buffered incomplete line
decoderFeed(dec, bytes) == decodeLines(dec, dec.buffer \o bytes)

MaxFragments == 3

\* the texts and the fragments the Segmenter yields
FragTexts == { <<"a", Q>>, <<BSL, "n">>, <<"LF">> }
FragPool == [kind : {"Answer", "Reasoning"}, text : FragTexts]

InitWire ==
    /\ UiIdle
    /\ ExtractIdle
    /\ ProxyIdle
    /\ ChatIdle
    /\ segInput = <<>>
    /\ segPos = 0
    /\ segmenter = SegStart
    /\ segDone = TRUE
    /\ rawChunks = <<>>
    /\ fragments = <<>>
    /\ encDone = FALSE
    /\ transport = <<>>
    /\ decoder = DecoderStart
    /\ injected = 0

\* the Segmenter yields new text and the Encoder writes its line
Encode ==
    /\ ~encDone
    /\ Len(fragments) + injected < MaxFragments
    /\ \E f \in FragPool :
          /\ fragments' = Append(fragments, f)
          /\ transport' = transport \o encode(f)
    /\ UNCHANGED <<encDone, injected, decoder, segVars>>
    /\ UNCHANGED <<extractVars, proxyVars, chatVars, uiVars>>

\* the stream ends and the Encoder writes the end markers
EncodeEnd ==
    /\ ~encDone
    /\ encDone' = TRUE
    /\ transport' = transport \o EndMarkers
    /\ UNCHANGED <<fragments, injected, decoder, segVars>>
    /\ UNCHANGED <<extractVars, proxyVars, chatVars, uiVars>>

\* the read loop gets the next bytes, any number of those written
Read ==
    /\ \E n \in 1..Len(transport) :
          /\ decoder' = decoderFeed(decoder, SubSeq(transport, 1, n))
          /\ transport' = SubSeqFrom(transport, n + 1)
    /\ UNCHANGED <<fragments, encDone, injected, segVars>>
    /\ UNCHANGED <<extractVars, proxyVars, chatVars, uiVars>>

NextWire ==
    \/ Encode
    \/ EncodeEnd
    \/ Read

SpecWire == InitWire /\ [][NextWire]_vars

MaxNoise == 1

\* lines the Decoder cannot use: a tag it does not know, a payload that is
\* not closed, a payload with an escape JSON does not have
BadLines ==
    { <<"x", ":", Q, "a", Q>>,
      <<"0", ":", Q, "a">>,
      <<"g", ":", Q, BSL, "x", Q>> }

\* a complete line that is no text line, reasoning line or end marker enters
\* the transport between the Encoder's lines
Inject ==
    /\ ~encDone
    /\ injected < MaxNoise
    /\ Len(fragments) + injected < MaxFragments
    /\ \E bad \in BadLines : transport' = transport \o bad \o <<"LF">>
    /\ injected' = injected + 1
    /\ UNCHANGED <<fragments, encDone, decoder, segVars>>
    /\ UNCHANGED <<extractVars, proxyVars, chatVars, uiVars>>

\* the fragments written next to the bad lines: text that needs no escaping
PlainPool == [kind : {"Answer", "Reasoning"}, text : { <<"a">> }]

\* the Segmenter yields plain text and the Encoder writes its line
EncodePlain ==
    /\ ~encDone
    /\ Len(fragments) + injected < MaxFragments
    /\ \E f \in PlainPool :
          /\ fragments' = Append(fragments, f)
          /\ transport' = transport \o encode(f)
    /\ UNCHANGED <<encDone, injected, decoder, segVars>>
    /\ UNCHANGED <<extractVars, proxyVars, chatVars, uiVars>>

NextNoise ==
    \/ EncodePlain
    \/ EncodeEnd
    \/ Inject
    \/ Read

SpecNoise == InitWire /\ [][NextNoise]_vars

\* the fragments as parts: the text of consecutive fragments of one kind
\* concatenated, in order
RECURSIVE Merged(_)
Merged(frags) ==
    IF frags = <<>> THEN <<>>
    ELSE IF Len(frags) > 1 /\ frags[1].kind = frags[2].kind
    THEN Merged(<<[kind |-> frags[1].kind, text |-> frags[1].text \o frags[2].text]>>
                    \o SubSeqFrom(frags, 3))
    ELSE <<[type |-> TypeOf(TagOf(frags[1].kind)), text |-> frags[1].text]>>
             \o Merged(Tail(frags))

\* C7: once every line written has been read, in whatever reads, the parts
\* hold the text of the encoded fragments, per type and in order
C7_RoundTrip ==
    (encDone /\ transport = <<>>)
    => /\ decoder.buffer = <<>>
       /\ decoder.parts = Merged(fragments)

\* three fragments with a backslash, a quote and a newline were read back,
\* one read ending between a backslash and the character it escapes
C7_Witness ==
    /\ encDone
    /\ transport = <<>>
    /\ decoder.midEscape
    /\ fragments =
          <<[kind |-> "Reasoning", text |-> <<BSL, "n">>],
            [kind |-> "Reasoning", text |-> <<"a", Q>>],
            [kind |-> "Answer", text |-> <<"LF">>]>>
    /\ decoder.parts =
          <<[type |-> "reasoning", text |-> <<BSL, "n", "a", Q>>],
            [type |-> "text", text |-> <<"LF">>]>>

\* what follows the last newline of s
RECURSIVE AfterLastLF(_)
AfterLastLF(s) ==
    IF IndexOf(s, <<"LF">>) = 0 THEN s
    ELSE AfterLastLF(SubSeqFrom(s, IndexOf(s, <<"LF">>) + 1))

\* the bytes a step reads from the transport
BytesOfRead == SubSeq(transport, 1, Len(transport) - Len(transport'))

\* a read keeps what follows the last newline received in the buffer, and
\* bytes without a newline leave the parts as they are
C18_Step ==
    Len(transport') < Len(transport) =>
      /\ decoder'.buffer = AfterLastLF(decoder.buffer \o BytesOfRead)
      /\ ~Contains(BytesOfRead, <<"LF">>) => decoder'.parts = decoder.parts

\* when everything written has been read, the parts are those of the
\* Encoder's lines alone, all of them, and nothing is left in the buffer
C18_Whole ==
    (encDone /\ transport = <<>>)
    => /\ decoder.parts = Merged(fragments)
       /\ decoder.buffer = <<>>

\* C18: a line with a tag the Decoder does not know and a complete line whose
\* payload is no valid JSON string add nothing to any part and do not stop
\* the decoding: every valid line is decoded and appended, before and after
\* them; an incomplete trailing line stays in the buffer until its newline
\* has arrived
C18_FailuresContained == [][C18_Step]_vars /\ []C18_Whole

\* a bad line travelled with two lines of one kind, which ended in one part
C18_Witness ==
    /\ encDone
    /\ transport = <<>>
    /\ injected = 1
    /\ Len(fragments) = 2
    /\ Len(decoder.parts) = 1
    /\ decoder.parts[1].text = fragments[1].text \o fragments[2].text

\* ==========================================================================
\* The stream end to end: model chunks -> Segmenter -> Encoder -> transport
\* -> Decoder -> parts
\* ==========================================================================

\* the lines of the fragments, in order
RECURSIVE EncodeAll(_)
EncodeAll(frags) ==
    IF frags = <<>> THEN <<>> ELSE encode(Head(frags)) \o EncodeAll(Tail(frags))

\* the chunks put together
RECURSIVE Flatten(_)
Flatten(chunks) ==
    IF chunks = <<>> THEN <<>> ELSE Head(chunks) \o Flatten(Tail(chunks))

\* "<thi", "nk>compute 2+2", "</think>The answer is 4."
ExampleChunks ==
    << <<"<", "t", "h", "i">>,
       <<"n", "k", ">", "c", "o", "m", "p", "u", "t", "e", " ", "2", "+", "2">>,
       <<"<", "/", "t", "h", "i", "n", "k", ">", "T", "h", "e", " ", "a", "n", "s", "w", "e", "r", " ", "i", "s", " ", "4", ".">> >>

\* a<think>b</think>c
ShortText == <<"a">> \o OpenMarker \o <<"b">> \o CloseMarker \o <<"c">>

MaxCuts == 2

\* the sets of at most k cut positions in a text of n characters
RECURSIVE CutSets(_, _)
CutSets(n, k) ==
    IF k = 0 THEN { {} }
    ELSE LET S == CutSets(n, k - 1) IN
         S \cup { s \cup {c} : s \in S, c \in 1..(n - 1) }

\* txt from position from on, cut behind the positions in cuts
RECURSIVE ChunksAt(_, _, _)
ChunksAt(txt, from, cuts) ==
    IF cuts = {} THEN <<SubSeq(txt, from, Len(txt))>>
    ELSE LET c == CHOOSE x \in cuts : \A y \in cuts : x <= y IN
         <<SubSeq(txt, from, c)>> \o ChunksAt(txt, c + 1, cuts \ {c})

\* the chunk sequences the model delivers
PipeInputs ==
    { ExampleChunks, <<Flatten(ExampleChunks)>> }
        \cup { ChunksAt(ShortText, 1, cuts) : cuts \in CutSets(Len(ShortText), MaxCuts) }

InitPipe ==
    /\ UiIdle
    /\ ExtractIdle
    /\ ProxyIdle
    /\ ChatIdle
    /\ rawChunks \in PipeInputs
    /\ segInput = Flatten(rawChunks)
    /\ segPos = 0
    /\ segmenter = SegStart
    /\ segDone = FALSE
    /\ fragments = <<>>
    /\ encDone = FALSE
    /\ transport = <<>>
    /\ decoder = DecoderStart
    /\ injected = 0

\* the next chunk arrives: it is fed to the Segmenter and every fragment the
\* call returns is encoded and written
PipeFeed ==
    /\ rawChunks # <<>>
    /\ \E st \in {feed(segmenter, Head(rawChunks))} :
          /\ segmenter' = Returned(st)
          /\ fragments' = fragments \o st.out
          /\ transport' = transport \o EncodeAll(st.out)
    /\ segPos' = segPos + Len(Head(rawChunks))
    /\ rawChunks' = Tail(rawChunks)
    /\ UNCHANGED <<segInput, segDone, encDone, injected, decoder>>
    /\ UNCHANGED <<extractVars, proxyVars, chatVars, uiVars>>

\* the model's stream ends: flush, then the end markers
PipeFlush ==
    /\ rawChunks = <<>>
    /\ ~segDone
    /\ \E st \in {flush(segmenter)} :
          /\ segmenter' = Returned(st)
          /\ fragments' = fragments \o st.out
          /\ transport' = transport \o EncodeAll(st.out) \o EndMarkers
    /\ segDone' = TRUE
    /\ encDone' = TRUE
    /\ UNCHANGED <<segInput, segPos, rawChunks, injected, decoder>>
    /\ UNCHANGED <<extractVars, proxyVars, chatVars, uiVars>>

NextPipe ==
    \/ PipeFeed
    \/ PipeFlush
    \/ Read

SpecPipe == InitPipe /\ [][NextPipe]_vars

\* how many bytes the Decoder has read
BytesRead ==
    Len(EncodeAll(fragments)) + (IF encDone THEN Len(EndMarkers) ELSE 0)
        - Len(transport)

\* how many of the lines of frags lie within the first n bytes
RECURSIVE LinesWithin(_, _)
LinesWithin(frags, n) ==
    IF frags = <<>> \/ Len(encode(Head(frags))) > n THEN 0
    ELSE 1 + LinesWithin(Tail(frags), n - Len(encode(Head(frags))))

C15_Step ==
    /\ Len(decoder'.parts) >= Len(decoder.parts)
    /\ \A j \in 1..Len(decoder.parts) :
          /\ decoder'.parts[j].type = decoder.parts[j].type
          /\ SubSeq(decoder'.parts[j].text, 1, Len(decoder.parts[j].text))
                = decoder.parts[j].text
          /\ j < Len(decoder.parts) => decoder'.parts[j] = decoder.parts[j]

C15_Whole ==
    decoder.parts = Merged(SubSeq(fragments, 1, LinesWithin(fragments, BytesRead)))

C15_Example ==
    (encDone /\ transport = <<>> /\ segInput = Flatten(ExampleChunks))
    => decoder.parts =
         <<[type |-> "reasoning", text |-> <<"c", "o", "m", "p", "u", "t", "e", " ", "2", "+", "2">>],
           [type |-> "text", text |-> <<"T", "h", "e", " ", "a", "n", "s", "w", "e", "r", " ", "i", "s", " ", "4", ".">>]>>

\* C15: at every moment the parts are the lines read so far, applied in
\* arrival order: consecutive lines of one kind concatenated into one part, a
\* line of the other kind opening a new part; parts already closed never
\* change and the open part only grows. The chunks "<thi", "nk>compute 2+2",
\* "</think>The answer is 4." end as one reasoning part and one text part.
C15_PartAccumulation == [][C15_Step]_vars /\ [](C15_Whole /\ C15_Example)

\* the example was delivered in its three chunks, written as four lines and
\* read back as two parts
C15_Witness ==
    /\ encDone
    /\ transport = <<>>
    /\ segInput = Flatten(ExampleChunks)
    /\ Len(fragments) = 4
    /\ Len(decoder.parts) = 2
    /\ decoder.parts[1].type = "reasoning"
    /\ decoder.parts[2].text = <<"T", "h", "e", " ", "a", "n", "s", "w", "e", "r", " ", "i", "s", " ", "4", ".">>

\* ==========================================================================
\* Workspace layout: the notes, the editor and the debounced autosave
\* (workspace-layout.tsx). The content of the editor is abstracted to the note
\* that was active when it was typed or loaded.
\* ==========================================================================

NoteIds == {"n1", "n2", "n3"}

MaxNoteOps == 2

\* the ids of notes not yet in the list, for createNote and for the backend
Fresh(w) == NoteIds \ (w.notes \cup w.deleted \cup {p.id : p \in w.pending})

\* updateNote(noteId, content) is requested
UpdateNote(w, noteId, content, by) ==
    [w EXCEPT !.lastUpdate = [noteId |-> noteId, content |-> content, by |-> by]]

\* "Save current note first": the timer is cleared and the editor content saved
SaveCurrent(w, by) ==
    IF w.activeNoteId # NoNote
    THEN UpdateNote([w EXCEPT !.saveDebounceRef = <<>>],
                    w.activeNoteId, w.editorContent, by)
    ELSE w

\* an asynchronous handler waits for the backend
Await(w, op, id) ==
    [w EXCEPT !.pending = @ \cup {[op |-> op, id |-> id]},
              !.started = @ + 1]

\* setActiveNoteId(id) and the effect that copies it to activeNoteRef
SetActive(w, id) == [w EXCEPT !.activeNoteId = id, !.activeNoteRef = id]

\* handleSelectNote(id), up to fetchNote
SelectNote(w, id) ==
    IF id = w.activeNoteId THEN w
    ELSE Await(SaveCurrent(w, "select"), "select", id)

\* handleCreateNote(), up to createNote
CreateNote(w, id) == Await(SaveCurrent(w, "create"), "create", id)

InitNotes ==
    /\ ExtractIdle
    /\ ProxyIdle
    /\ ChatIdle
    /\ StreamIdle
    /\ chatPanel = ChatPanelStart
    /\ SideIdle
    /\ workspace =
          [WorkspaceStart EXCEPT !.notes = {"n1", "n2"},
                                 !.activeNoteId = "n1",
                                 !.activeNoteRef = "n1",
                                 !.editorContent = "n1"]

\* the user types: the editor content changes and the save timer is set anew
handleEditorChange ==
    /\ workspace' =
          [workspace EXCEPT !.editorContent = workspace.activeNoteId,
                            !.saveDebounceRef = <<workspace.activeNoteId>>]
    /\ UNCHANGED <<extractVars, proxyVars, chatVars, streamVars, chatPanel, sideVars>>

\* the save timer fires, one second after the last edit
SaveTimer ==
    /\ workspace.saveDebounceRef # <<>>
    /\ workspace' =
          [(IF workspace.activeNoteRef # NoNote
            THEN UpdateNote(workspace, workspace.activeNoteRef,
                            Head(workspace.saveDebounceRef), "autosave")
            ELSE workspace)
           EXCEPT !.saveDebounceRef = <<>>]
    /\ UNCHANGED <<extractVars, proxyVars, chatVars, streamVars, chatPanel, sideVars>>

handleSelectNote ==
    /\ workspace.started < MaxNoteOps
    /\ \E id \in workspace.notes :
          /\ id # workspace.activeNoteId
          /\ workspace' = SelectNote(workspace, id)
    /\ UNCHANGED <<extractVars, proxyVars, chatVars, streamVars, chatPanel, sideVars>>

handleCreateNote ==
    /\ workspace.started < MaxNoteOps
    /\ \E id \in Fresh(workspace) :
          workspace' = CreateNote(workspace, id)
    /\ UNCHANGED <<extractVars, proxyVars, chatVars, streamVars, chatPanel, sideVars>>

\* the note leaves the list; when it was the active one, another note is
\* selected, or one is created when none is left
handleDeleteNote ==
    /\ workspace.started < MaxNoteOps
    /\ \E id \in workspace.notes :
          \E w \in {[workspace EXCEPT !.notes = @ \ {id},
                                       !.deleted = @ \cup {id}]} :
            IF id # workspace.activeNoteId THEN workspace' = w
            ELSE IF w.notes # {}
            THEN \E next \in w.notes : workspace' = SelectNote(w, next)
            ELSE \E new \in Fresh(w) : workspace' = CreateNote(w, new)
    /\ UNCHANGED <<extractVars, proxyVars, chatVars, streamVars, chatPanel, sideVars>>

\* the chat reports a file the backend wrote: a new note, which becomes the
\* active one, or an edit of a note, whose content is loaded again
handleFileAction ==
    /\ workspace.started < MaxNoteOps
    /\ \/ \E id \in Fresh(workspace) :
             workspace' =
                Await(SetActive([workspace EXCEPT !.notes = @ \cup {id}], id),
                      "create_new", id)
       \/ \E id \in workspace.notes :
             workspace' = Await(workspace, "edit_current", id)
    /\ UNCHANGED <<extractVars, proxyVars, chatVars, streamVars, chatPanel, sideVars>>

\* the backend answers and the handler that waited goes on
Resolved ==
    /\ \E p \in workspace.pending :
          \E w \in {[workspace EXCEPT !.pending = @ \ {p}]} :
            workspace' =
              CASE p.op = "select" ->
                     [SetActive(w, p.id) EXCEPT !.editorContent = p.id]
                [] p.op = "create" ->
                     [SetActive([w EXCEPT !.notes = @ \cup {p.id}], p.id)
                        EXCEPT !.editorContent = p.id]
                [] OTHER -> [w EXCEPT !.editorContent = p.id]
    /\ UNCHANGED <<extractVars, proxyVars, chatVars, streamVars, chatPanel, sideVars>>

\* the backend fails: select and create give up, a created file is shown from
\* the action's own markdown, an edit is appended to what the editor holds
Rejected ==
    /\ \E p \in workspace.pending :
          \E w \in {[workspace EXCEPT !.pending = @ \ {p}]} :
            workspace' =
              IF p.op = "create_new" THEN [w EXCEPT !.editorContent = p.id]
              ELSE w
    /\ UNCHANGED <<extractVars, proxyVars, chatVars, streamVars, chatPanel, sideVars>>

NextNotes ==
    \/ handleEditorChange
    \/ SaveTimer
    \/ handleSelectNote
    \/ handleCreateNote
    \/ handleDeleteNote
    \/ handleFileAction
    \/ Resolved
    \/ Rejected

SpecNotes == InitNotes /\ [][NextNotes]_vars

\* C19: every updateNote request of the debounced autosave carries content
\* that was edited while the note it is written to was the active note
C19_AutosaveOwnNote ==
    workspace.lastUpdate.by = "autosave"
    => workspace.lastUpdate.content = workspace.lastUpdate.noteId

\* C23: once handleDeleteNote(id) has been called, no updateNote request is
\* sent for id, also when id was the active note
C23_NoSaveOfDeleted ==
    [][workspace'.lastUpdate # workspace.lastUpdate
         => workspace'.lastUpdate.noteId \notin workspace'.deleted]_vars

\* ==========================================================================
\* Chat panel: the active chat, loading its saved messages, saving them after
\* a response (chat-panel.tsx). A message is abstracted to the chat it was
\* loaded from or sent in, a number and the types of its parts.
\* ==========================================================================

ChatIds == {"c1", "c2"}

MaxChatSwitches == 2
MaxExchanges == 2

\* the parts of a complete response, in the order they are written
ResponseParts == <<"reasoning", "text", "data-action">>

\* p.type === "text" || p.type === "reasoning"
IsSaved(type) == type \in {"text", "reasoning"}

\* (mutation) every part is saved
Serialize_All(msgs) == msgs

\* the messages as they are saved: id, role and the text and reasoning parts
Serialize(msgs) ==
    [j \in 1..Len(msgs) |-> [msgs[j] EXCEPT !.parts = SelectSeq(@, IsSaved)]]

\* the save effect, run after a render in which status, activeChatId or
\* messages changed: the messages are saved under the active chat when a
\* response has just completed
SaveEffect(p) ==
    [(IF /\ p.prevStatusRef \in {"streaming", "submitted"}
         /\ p.status = "ready"
         /\ p.activeChatId # NoChat
         /\ p.messages # <<>>
      THEN [p EXCEPT !.saved = <<[chat |-> p.activeChatId,
                                  messages |-> Serialize(p.messages)]>>,
                     !.stored[p.activeChatId] = Serialize(p.messages),
                     !.saveCalls = @ + 1]
      ELSE p)
     EXCEPT !.prevStatusRef = p.status]

\* the message the active response writes
ResponseMessage(p) ==
    [chat |-> p.streamOf, id |-> 2 * p.exchange,
     parts |-> SubSeq(ResponseParts, 1, p.written)]

InitSwitch ==
    /\ ExtractIdle
    /\ ProxyIdle
    /\ ChatIdle
    /\ StreamIdle
    /\ workspace = WorkspaceStart
    /\ SideIdle
    /\ chatPanel =
          [ChatPanelStart EXCEPT
             !.activeChatId = "c1",
             !.loading = {"c1"},
             !.stored = [c \in ChatIds |->
                           <<[chat |-> c, id |-> 0, parts |-> <<"text">>]>>]]

\* a chat is chosen in the dropdown: switchChat clears the messages and sets
\* the active chat, whose load effect starts fetchChat
handleSelectChat ==
    /\ chatPanel.switched < MaxChatSwitches
    /\ \E id \in ChatIds \ {chatPanel.activeChatId} :
          chatPanel' =
            SaveEffect([chatPanel EXCEPT !.messages = <<>>,
                                         !.activeChatId = id,
                                         !.loading = @ \cup {id},
                                         !.switched = @ + 1])
    /\ UNCHANGED <<extractVars, proxyVars, chatVars, streamVars, workspace, sideVars>>

\* fetchChat answers: its messages are set when there are any
LoadChatDone ==
    /\ \E c \in chatPanel.loading :
          chatPanel' =
            SaveEffect([chatPanel EXCEPT
                          !.messages = IF chatPanel.stored[c] # <<>>
                                       THEN chatPanel.stored[c] ELSE @,
                          !.loading = @ \ {c}])
    /\ UNCHANGED <<extractVars, proxyVars, chatVars, streamVars, workspace, sideVars>>

\* fetchChat fails: chat not found or backend down
LoadChatFailed ==
    /\ \E c \in chatPanel.loading :
          chatPanel' = [chatPanel EXCEPT !.loading = @ \ {c}]
    /\ UNCHANGED <<extractVars, proxyVars, chatVars, streamVars, workspace, sideVars>>

\* the user sends a message in the active chat
handleSend ==
    /\ chatPanel.status = "ready"
    /\ chatPanel.exchange < MaxExchanges
    /\ chatPanel' =
          SaveEffect([chatPanel EXCEPT
                        !.exchange = @ + 1,
                        !.messages = Append(@, [chat |-> chatPanel.activeChatId,
                                                id |-> 2 * chatPanel.exchange + 1,
                                                parts |-> <<"text">>]),
                        !.streamOf = chatPanel.activeChatId,
                        !.written = 0,
                        !.status = "submitted"])
    /\ UNCHANGED <<extractVars, proxyVars, chatVars, streamVars, workspace, sideVars>>

\* a chunk of the response arrives with the next part: the response's
\* message replaces the last message when that is the response's, and is
\* pushed otherwise
ResponseChunk ==
    /\ chatPanel.status \in {"submitted", "streaming"}
    /\ chatPanel.written < Len(ResponseParts)
    /\ \E p \in {[chatPanel EXCEPT !.written = @ + 1]} :
          chatPanel' =
            SaveEffect([p EXCEPT
                          !.messages =
                              IF /\ @ # <<>>
                                 /\ @[Len(@)].id = 2 * p.exchange
                                 /\ @[Len(@)].chat = p.streamOf
                              THEN [@ EXCEPT ![Len(@)] = ResponseMessage(p)]
                              ELSE Append(@, ResponseMessage(p)),
                          !.status = "streaming"])
    /\ UNCHANGED <<extractVars, proxyVars, chatVars, streamVars, workspace, sideVars>>

\* the response completes
ResponseEnd ==
    /\ chatPanel.status \in {"submitted", "streaming"}
    /\ chatPanel' = SaveEffect([chatPanel EXCEPT !.status = "ready"])
    /\ UNCHANGED <<extractVars, proxyVars, chatVars, streamVars, workspace, sideVars>>

NextSwitch ==
    \/ handleSelectChat
    \/ LoadChatDone
    \/ LoadChatFailed
    \/ handleSend
    \/ ResponseChunk
    \/ ResponseEnd

SpecSwitch == InitSwitch /\ [][NextSwitch]_vars

\* C20: the messages shown for the active chat, and those saved under it,
\* are only messages that were loaded from or sent in that chat
C20_ChatIsolation ==
    /\ \A j \in 1..Len(chatPanel.messages) :
          chatPanel.messages[j].chat = chatPanel.activeChatId
    /\ chatPanel.saved # <<>> =>
          \A j \in 1..Len(chatPanel.saved[1].messages) :
             chatPanel.saved[1].messages[j].chat = chatPanel.saved[1].chat

------------------------------------------------------------------------------
\* Further properties of the extractor

\* C21: a payload is returned only when the action value and the message
\* value are each closed by an unescaped double quote: for a text cut off
\* inside one of them no payload carrying the truncated value is returned
C21_ClosedValuesOnly ==
    (pc = "done" /\ ~result.null)
    => \A k \in {1, 2} :
          /\ keyReExec(trimmed, FieldOrder[k]) # 0
          /\ JsonStringEnd(trimmed, keyReExec(trimmed, FieldOrder[k])) # 0

------------------------------------------------------------------------------
\* Further properties of the action application guard

\* the calls of onFileAction a step makes for the card at the key
NewCalls(key) ==
    { n \in (Len(calls) + 1)..Len(calls') :
        calls'[n].msg = key[1] /\ calls'[n].part = key[2] }

\* the card at the key was rendered without a note id or without a handler
Unready(card) == card.deps[4] = <<>> \/ card.deps[6] = "none"

\* the latch of the instance a render of the key continues
LatchBefore(key) == cards[key].mounted /\ cards[key].appliedRef

C22_Step ==
    \A key \in CardKeys :
       cards'[key].mounted =>
          /\ Unready(cards'[key]) =>
                /\ NewCalls(key) = {}
                /\ cards'[key].appliedRef = LatchBefore(key)
          /\ LatchBefore(key) =>
                /\ NewCalls(key) = {}
                /\ cards'[key].appliedRef
          /\ (~Unready(cards'[key]) /\ ~LatchBefore(key)) =>
                /\ cards'[key].appliedRef
                /\ Cardinality(NewCalls(key)) = 1
                /\ \A n \in NewCalls(key) :
                      /\ calls'[n].data.note_id = cards'[key].deps[4]
                      /\ calls'[n].data.action = cards'[key].deps[1]
                      /\ calls'[n].data.filename = cards'[key].deps[2]
                      /\ calls'[n].data.markdown = cards'[key].deps[3]

C22_Whole ==
    \A key \in CardKeys :
       cards[key].mounted =>
          /\ ~Unready(cards[key]) => cards[key].appliedRef
          /\ cards[key].appliedRef =>
                \E n \in 1..Len(calls) :
                   calls[n].msg = key[1] /\ calls[n].part = key[2]

\* C22: while the note id or onFileAction is missing, a render of a card
\* neither calls onFileAction nor sets the latch; the first render of the
\* same card with both calls it exactly once, with the props of that render,
\* and sets the latch; once the latch is set the card never calls again
C22_LatchOnlyByCall == [][C22_Step]_vars /\ []C22_Whole

\* a card with a note id was rendered twice or more without a handler: no
\* call was made and the latch is not set
C22_Witness ==
    /\ onFileAction = "none"
    /\ calls = <<>>
    /\ \E key \in CardKeys :
          /\ cards[key].mounted
          /\ cards[key].renders >= 2
          /\ cards[key].deps[4] # <<>>
          /\ ~cards[key].appliedRef

\* ==========================================================================
\* Two-step delete confirmation of the note list, the PDF list and the
\* knowledge-base list (NoteList, DocumentList, ChromaDocumentList). Beside
\* the component's state each list records the item of the last click and
\* whether three seconds have passed since, to state what a click follows.
\* ==========================================================================

MaxDeletes == 2

\* (mutation) the pending timer is not cleared when the confirmation is armed
Arm_NoClear(c, id) ==
    [c EXCEPT !.confirmId = id, !.timers = @ + 1,
              !.lastClick = id, !.expired = FALSE]

\* confirmId !== id: the confirmation is armed for id, the pending timer
\* cleared and a new one started
Arm(c, id) ==
    [c EXCEPT !.confirmId = id, !.timers = 1,
              !.lastClick = id, !.expired = FALSE]

\* the second click: the confirmation and its timer are cleared, the item is
\* deleted (the parent, or the list itself, removes it from the list)
Delete(c, id) ==
    [c EXCEPT !.confirmId = NoItem, !.timers = 0,
              !.items = @ \ {id},
              !.requested = Append(@, id),
              !.lastClick = NoItem, !.expired = FALSE]

InitConfirm ==
    /\ ExtractIdle
    /\ ProxyIdle
    /\ ChatIdle
    /\ StreamIdle
    /\ workspace = WorkspaceStart
    /\ chatPanel = ChatPanelStart
    /\ confirm = ConfirmStart
    /\ listing = ListingStart
    /\ ingest = IngestStart

\* a click on the delete button of an item of a list
handleDelete ==
    /\ \E l \in Lists : \E id \in confirm[l].items :
          /\ Len(confirm[l].requested) < MaxDeletes
          /\ confirm' =
                [confirm EXCEPT ![l] =
                   IF confirm[l].confirmId # id THEN Arm(@, id) ELSE Delete(@, id)]
    /\ UNCHANGED <<listing, ingest>>
    /\ UNCHANGED <<extractVars, proxyVars, chatVars, streamVars, workspace, chatPanel>>

\* a confirmation timer fires after three seconds: setConfirmId(null)
ConfirmExpires ==
    /\ \E l \in Lists :
          /\ confirm[l].timers > 0
          /\ confirm' =
                [confirm EXCEPT ![l].confirmId = NoItem,
                                ![l].timers = @ - 1,
                                ![l].expired = TRUE]
    /\ UNCHANGED <<listing, ingest>>
    /\ UNCHANGED <<extractVars, proxyVars, chatVars, streamVars, workspace, chatPanel>>

\* the list is loaded again and shows an item once more (poll, refresh)
Reload ==
    /\ \E l \in Lists : \E id \in Items \ confirm[l].items :
          confirm' = [confirm EXCEPT ![l].items = @ \cup {id}]
    /\ UNCHANGED <<listing, ingest>>
    /\ UNCHANGED <<extractVars, proxyVars, chatVars, streamVars, workspace, chatPanel>>

NextConfirm ==
    \/ handleDelete
    \/ ConfirmExpires
    \/ Reload

SpecConfirm == InitConfirm /\ [][NextConfirm]_vars

\* the step invokes the delete operation of a list
Deletes(l) == Len(confirm'[l].requested) > Len(confirm[l].requested)

\* the step is a click that does not delete
Arms(l) ==
    /\ ~Deletes(l)
    /\ confirm'[l].lastClick # NoItem
    /\ ~confirm'[l].expired
    /\ <<confirm'[l].lastClick, confirm'[l].expired>>
          # <<confirm[l].lastClick, confirm[l].expired>>

C24_Step ==
    \A l \in Lists :
       /\ Deletes(l) =>
             /\ confirm'[l].requested =
                   Append(confirm[l].requested, confirm[l].lastClick)
             /\ ~confirm[l].expired
             /\ confirm[l].lastClick \in confirm[l].items
             /\ confirm'[l].timers = 0
       /\ (confirm[l].lastClick = NoItem \/ confirm[l].expired) => ~Deletes(l)
       /\ Arms(l) => confirm'[l].confirmId = confirm'[l].lastClick

C24_Whole ==
    \A l \in Lists :
       /\ confirm[l].timers <= 1
       /\ confirm[l].confirmId # NoItem =>
             /\ confirm[l].timers = 1
             /\ confirm[l].confirmId = confirm[l].lastClick
             /\ ~confirm[l].expired

\* C24: in each list the delete operation of an item is invoked only by a
\* click on it that follows a click on the same item, with no click on
\* another item in between and the three seconds not yet over; a first click
\* only arms the confirmation, a click on another item arms it for that item,
\* and at most one confirmation timer is pending
C24_TwoStepDelete == [][C24_Step]_vars /\ []C24_Whole

\* in the note list b was deleted by its second click and the timer is
\* cleared, while the PDF list is armed for a
C24_Witness ==
    /\ confirm["notes"].requested = <<"b">>
    /\ confirm["notes"].items = {"a"}
    /\ confirm["notes"].confirmId = NoItem
    /\ confirm["notes"].timers = 0
    /\ confirm["pdfs"].confirmId = "a"

\* ==========================================================================
\* The notes list of the layout and the backend's notes (workspace-layout.tsx,
\* lib/api/notes.ts): initial load, poll, refresh, creation, optimistic
\* deletion and the file actions of the chat
\* ==========================================================================

MaxListOps == 3

\* the sequence without the id
RECURSIVE Without(_, _)
Without(seq, id) ==
    IF seq = <<>> THEN <<>>
    ELSE IF Head(seq) = id THEN Without(Tail(seq), id)
    ELSE <<Head(seq)>> \o Without(Tail(seq), id)

\* the ids of a sequence
Ids(seq) == { seq[n] : n \in 1..Len(seq) }

\* a request on its way to the backend; cause tells a fetch of the list from
\* another, id names the note of a delete or of a failed delete's reload
Request(kind, cause, id) ==
    [kind |-> kind, cause |-> cause, id |-> id, answered |-> FALSE,
     ok |-> TRUE, list |-> <<>>]

\* the request is sent
Send(s, req) == [s EXCEPT !.requests = @ \cup {req}, !.ops = @ + 1]

\* (mutation) a failed delete is ignored
DeleteFailed_Ignore(s, id) == s

\* deleteNote(id).catch(() => handleRefreshNotes())
DeleteFailed(s, id) ==
    [s EXCEPT !.requests = @ \cup {Request("fetch", "resync", id)}]

InitList ==
    /\ ExtractIdle
    /\ ProxyIdle
    /\ ChatIdle
    /\ StreamIdle
    /\ workspace = WorkspaceStart
    /\ chatPanel = ChatPanelStart
    /\ confirm = ConfirmStart
    /\ ingest = IngestStart
    /\ listing =
          [ListingStart EXCEPT
             !.backend = <<"n1", "n2">>,
             !.used = {"n1", "n2"},
             !.requests = {Request("fetch", "init", "none")}]

\* the 5-second poll, or the refresh button: fetchNotes()
ListFetch ==
    /\ listing.ops < MaxListOps
    /\ \E cause \in {"poll", "refresh"} :
          listing' = Send(listing, Request("fetch", cause, "none"))
    /\ UNCHANGED <<confirm, ingest>>
    /\ UNCHANGED <<extractVars, proxyVars, chatVars, streamVars, workspace, chatPanel>>

\* handleCreateNote: createNote("Untitled")
ListCreate ==
    /\ listing.ops < MaxListOps
    /\ listing' = Send(listing, Request("create", "user", "none"))
    /\ UNCHANGED <<confirm, ingest>>
    /\ UNCHANGED <<extractVars, proxyVars, chatVars, streamVars, workspace, chatPanel>>

\* handleDeleteNote(id): the note leaves the list at once, deleteNote(id)
ListDelete ==
    /\ listing.ops < MaxListOps
    /\ \E id \in Ids(listing.notes) :
          listing' =
            Send([listing EXCEPT !.notes = Without(@, id)],
                 Request("delete", "user", id))
    /\ UNCHANGED <<confirm, ingest>>
    /\ UNCHANGED <<extractVars, proxyVars, chatVars, streamVars, workspace, chatPanel>>

\* the assistant creates a note: the backend writes it and the chat stream
\* carries its create_new action to the panel
AiWrites ==
    /\ listing.ops < MaxListOps
    /\ \E id \in NoteIds \ listing.used :
          listing' =
            [listing EXCEPT !.backend = <<id>> \o @,
                            !.used = @ \cup {id},
                            !.actions = @ \cup {id},
                            !.ops = @ + 1]
    /\ UNCHANGED <<confirm, ingest>>
    /\ UNCHANGED <<extractVars, proxyVars, chatVars, streamVars, workspace, chatPanel>>

\* handleFileAction for create_new: the note is put in front of the list
ListFileAction ==
    /\ \E id \in listing.actions :
          listing' = [listing EXCEPT !.notes = <<id>> \o @,
                                     !.actions = @ \ {id}]
    /\ UNCHANGED <<confirm, ingest>>
    /\ UNCHANGED <<extractVars, proxyVars, chatVars, streamVars, workspace, chatPanel>>

\* the backend answers a request, or fails
Serve ==
    /\ \E req \in listing.requests :
          /\ ~req.answered
          /\ \E ok \in BOOLEAN :
                \E s \in {[listing EXCEPT !.requests = @ \ {req}]} :
                  listing' =
                    IF ~ok
                    THEN [s EXCEPT !.requests =
                            @ \cup {[req EXCEPT !.answered = TRUE, !.ok = FALSE]}]
                    ELSE IF req.kind = "fetch"
                    THEN [s EXCEPT !.requests =
                            @ \cup {[req EXCEPT !.answered = TRUE,
                                                !.list = s.backend]}]
                    ELSE IF req.kind = "create"
                    THEN IF NoteIds \ s.used = {} THEN listing
                         ELSE LET id == CHOOSE x \in NoteIds \ s.used : TRUE IN
                              [s EXCEPT !.backend = <<id>> \o @,
                                        !.used = @ \cup {id},
                                        !.requests =
                                           @ \cup {[req EXCEPT !.answered = TRUE,
                                                               !.id = id]}]
                    ELSE [s EXCEPT !.backend = Without(@, req.id),
                                   !.requests =
                                      @ \cup {[req EXCEPT !.answered = TRUE,
                                                          !.ok = req.id \in Ids(s.backend)]}]
    /\ UNCHANGED <<confirm, ingest>>
    /\ UNCHANGED <<extractVars, proxyVars, chatVars, streamVars, workspace, chatPanel>>

\* the answer arrives and the handler that awaited it goes on
Receive ==
    /\ \E req \in listing.requests :
          /\ req.answered
          /\ \E s \in {[listing EXCEPT !.requests = @ \ {req}]} :
                listing' =
                  IF req.kind = "fetch"
                  THEN IF req.ok
                       THEN [s EXCEPT !.notes = req.list,
                                      !.resynced = IF req.cause = "resync"
                                                   THEN req.id ELSE "none"]
                       ELSE s
                  ELSE IF req.kind = "create"
                  THEN IF req.ok
                       THEN [s EXCEPT !.notes = <<req.id>> \o @,
                                      !.resynced = "none"]
                       ELSE s
                  ELSE IF req.ok THEN s ELSE DeleteFailed(s, req.id)
    /\ UNCHANGED <<confirm, ingest>>
    /\ UNCHANGED <<extractVars, proxyVars, chatVars, streamVars, workspace, chatPanel>>

NextList ==
    \/ ListFetch
    \/ ListCreate
    \/ ListDelete
    \/ AiWrites
    \/ ListFileAction
    \/ Serve
    \/ Receive

SpecList == InitList /\ [][NextList]_vars

\* C25: the notes list of the layout never holds two entries with one id
C25_NoDuplicateNotes ==
    \A a, b \in 1..Len(listing.notes) :
       a # b => listing.notes[a] # listing.notes[b]

\* the answers taken in by this step
Received == { req \in listing.requests : req.answered /\ req \notin listing'.requests }

\* the requests answered by this step
Answered == { req \in listing'.requests : req.answered /\ req \notin listing.requests }

\* the requests sent by this step
Sent == { req \in listing'.requests : ~req.answered /\ req \notin listing.requests }

C28_Step ==
    /\ \A req \in Sent :
          req.kind = "delete" => req.id \notin Ids(listing'.notes)
    /\ \A req \in Received :
          (req.kind = "delete" /\ ~req.ok)
             => Request("fetch", "resync", req.id) \in listing'.requests
    /\ \A req \in Answered :
          (req.kind = "fetch" /\ req.ok) => req.list = listing.backend
    /\ \A req \in Received :
          (req.kind = "fetch" /\ req.cause = "resync" /\ req.ok)
             => /\ listing'.notes = req.list
                /\ listing'.resynced = req.id
                /\ (req.list = listing.backend => listing'.notes = listing'.backend)

\* C28: handleDeleteNote takes the note out of the list at once; when the
\* backend's delete fails the list is fetched again, and once that reload is
\* in, the list is the list the backend answered with
C28_ResyncOnFailure == [][C28_Step]_vars

\* a failed delete of n1 was followed by a reload that shows n1 again
C28_Witness ==
    /\ listing.resynced = "n1"
    /\ listing.notes = listing.backend
    /\ "n1" \in Ids(listing.notes)

\* ==========================================================================
\* Pending ingestions (upload-dropzone.tsx, chroma-document-list.tsx,
\* DocumentDrawer)
\* ==========================================================================

MaxFileChunks == 2

\* total_chunks of the confirm answer: <<n>> for the number of chunks, <<>>
\* when the field is missing
TotalChunks(chunks) == {<<chunks>>, <<>>}

\* result.total_chunks ?? 0
OrZero(total) == IF total = <<>> THEN 0 ELSE total[1]

\* the pending ingestions checkCompleted leaves, for the documents answered
RECURSIVE checkCompleted(_, _)
checkCompleted(pending, data) ==
    IF pending = <<>> THEN <<>>
    ELSE IF Head(pending).totalChunks > 0
            /\ data[Head(pending).fileId] >= Head(pending).totalChunks
         THEN checkCompleted(Tail(pending), data)
         ELSE <<Head(pending)>> \o checkCompleted(Tail(pending), data)

\* the chunk counts the backend lists (0 for a document it does not list)
fetchDocuments(backend) ==
    [f \in FileIds |-> IF backend[f].state = "ingesting" THEN backend[f].count ELSE 0]

InitIngest ==
    /\ ExtractIdle
    /\ ProxyIdle
    /\ ChatIdle
    /\ StreamIdle
    /\ workspace = WorkspaceStart
    /\ chatPanel = ChatPanelStart
    /\ confirm = ConfirmStart
    /\ listing = ListingStart
    /\ ingest = IngestStart

\* onDrop: uploadPDF(file) answers with the id of a new upload and the naming
\* dialog opens
onDrop ==
    /\ ingest.pendingUpload = "none"
    /\ \E f \in FileIds, chunks \in 0..MaxFileChunks :
          /\ ingest.backend[f].state = "none"
          /\ ingest' =
                [ingest EXCEPT !.pendingUpload = f,
                               !.backend[f] = [state |-> "uploaded",
                                               chunks |-> chunks, count |-> 0]]
    /\ UNCHANGED <<confirm, listing>>
    /\ UNCHANGED <<extractVars, proxyVars, chatVars, streamVars, workspace, chatPanel>>

\* handleConfirm: confirmUpload starts the ingestion and
\* onIngestionStarted(id, filename, total_chunks ?? 0) adds the pending card;
\* a failed confirm only closes the dialog
handleConfirm ==
    /\ ingest.pendingUpload # "none"
    /\ \E f \in {ingest.pendingUpload} :
          \/ \E total \in TotalChunks(ingest.backend[f].chunks) :
                ingest' =
                  [ingest EXCEPT
                     !.pendingUpload = "none",
                     !.backend[f].state = "ingesting",
                     !.pendingIngestions =
                        Append(@, [fileId |-> f, totalChunks |-> OrZero(total)])]
          \/ ingest' = [ingest EXCEPT !.pendingUpload = "none"]
    /\ UNCHANGED <<confirm, listing>>
    /\ UNCHANGED <<extractVars, proxyVars, chatVars, streamVars, workspace, chatPanel>>

\* the backend ingests one more chunk of a confirmed file
Ingests ==
    /\ \E f \in FileIds :
          /\ ingest.backend[f].state = "ingesting"
          /\ ingest.backend[f].count < ingest.backend[f].chunks
          /\ ingest' = [ingest EXCEPT !.backend[f].count = @ + 1]
    /\ UNCHANGED <<confirm, listing>>
    /\ UNCHANGED <<extractVars, proxyVars, chatVars, streamVars, workspace, chatPanel>>

\* the poll: load().then(checkCompleted) with an answer of the backend
PollLoads ==
    /\ \E data \in {fetchDocuments(ingest.backend)} :
          ingest' =
            [ingest EXCEPT
               !.docs = data,
               !.pendingIngestions = checkCompleted(@, data)]
    /\ ingest' # ingest
    /\ UNCHANGED <<confirm, listing>>
    /\ UNCHANGED <<extractVars, proxyVars, chatVars, streamVars, workspace, chatPanel>>

NextIngest ==
    \/ onDrop
    \/ handleConfirm
    \/ Ingests
    \/ PollLoads

SpecIngest == InitIngest /\ [][NextIngest]_vars

\* the backend keeps ingesting and keeps answering the poll; the timer of the
\* poll effect fires every 3 or 10 seconds
FairIngest == SpecIngest /\ WF_vars(Ingests) /\ WF_vars(PollLoads)

\* the file has a pending card
IsPending(f) ==
    \E n \in 1..Len(ingest.pendingIngestions) :
       ingest.pendingIngestions[n].fileId = f

\* C26: every pending ingestion is eventually removed, whatever total_chunks
\* the confirm answer carried
C26_PendingRemoved == \A f \in FileIds : IsPending(f) ~> ~IsPending(f)

\* the same for the cards whose total_chunks was a positive number
C26_CountedRemoved ==
    \A f \in FileIds :
       (\E n \in 1..Len(ingest.pendingIngestions) :
           /\ ingest.pendingIngestions[n].fileId = f
           /\ ingest.pendingIngestions[n].totalChunks > 0)
         ~> ~IsPending(f)

------------------------------------------------------------------------------
\* Saving the chat (chat-panel.tsx save effect)

\* a response completes in this step with a chat active and messages shown
Completes ==
    /\ chatPanel.status \in {"submitted", "streaming"}
    /\ chatPanel'.status = "ready"
    /\ chatPanel'.activeChatId # NoChat
    /\ chatPanel'.messages # <<>>

C27_Step ==
    /\ Completes =>
          /\ chatPanel'.saveCalls = chatPanel.saveCalls + 1
          /\ chatPanel'.saved[1].chat = chatPanel'.activeChatId
          /\ Len(chatPanel'.saved[1].messages) = Len(chatPanel'.messages)
          /\ \A j \in 1..Len(chatPanel'.messages) :
                /\ chatPanel'.saved[1].messages[j].id = chatPanel'.messages[j].id
                /\ chatPanel'.saved[1].messages[j].parts =
                      SelectSeq(chatPanel'.messages[j].parts, IsSaved)
                /\ \A n \in 1..Len(chatPanel'.saved[1].messages[j].parts) :
                      chatPanel'.saved[1].messages[j].parts[n] \in {"text", "reasoning"}
    /\ ~Completes =>
          /\ chatPanel'.saveCalls = chatPanel.saveCalls
          /\ chatPanel'.saved = chatPanel.saved

\* C27: each change of status from submitted or streaming to ready, with a
\* chat active and a message shown, makes exactly one saveChat call with all
\* current messages in order, each cut down to its text and reasoning parts;
\* no other step calls saveChat
C27_SaveOnCompletion == [][C27_Step]_vars

\* a response with a data part has completed and was saved without it
C27_Witness ==
    /\ chatPanel.status = "ready"
    /\ chatPanel.saveCalls = 1
    /\ chatPanel.messages # <<>>
    /\ chatPanel.messages[Len(chatPanel.messages)].parts = ResponseParts
    /\ chatPanel.saved[1].messages[Len(chatPanel.messages)].parts
          = <<"reasoning", "text">>

------------------------------------------------------------------------------
\* What Message shows for a text part that is an action object
\* (markdown-editor.tsx, the fallback of the text part)

\* "key":"value"
Field(key, value) == K(key) \o <<":", Q>> \o value \o <<Q>>

\* {"action":"a","message":"m"} with a content and a filename field unless
\* they are NULL
ActionObject(a, c, f) ==
    <<"{">> \o Field(ActionKey, a) \o <<",">> \o Field(MessageKey, <<"m">>)
        \o (IF c = NULL THEN <<>> ELSE <<",">> \o Field(ContentKey, c))
        \o (IF f = NULL THEN <<>> ELSE <<",">> \o Field(FilenameKey, f))
        \o <<"}">>

\* action values: the two that make a card, another word, another case
ObjectActions == {Edit, Create, <<"c","h","a","t">>, <<"E","d","i","t">>}

\* the texts of the part: action objects without content, with empty and
\* with non-empty content, with and without filename, and prose
ObjectTexts ==
    { ActionObject(a, c, f) :
        a \in ObjectActions, c \in {NULL, <<>>, <<"c">>}, f \in {NULL, <<"f">>} }
      \cup {ProseExample}

\* a text part is about to be rendered; tryRecoverAction(part.text) has
\* returned
InitObject ==
    /\ ProxyIdle
    /\ StreamIdle
    /\ UiIdle
    /\ text \in ObjectTexts
    /\ pc = "done"
    /\ trimmed = Trim(text)
    /\ fidx = 0
    /\ i = 0
    /\ chars = <<>>
    /\ vals = NoVals
    /\ result = tryRecoverAction(text)
    /\ messages = <<>>
    /\ resp = NoResp
    /\ chatStatus = "ready"
    /\ onFileAction \in Handlers
    /\ activeTitle \in Titles
    /\ cards = [k \in CardKeys |-> NoCard]
    /\ shown = <<>>
    /\ calls = <<>>
    /\ nextId = 1
    /\ switches = 0

\* Message renders the part: the element and the props of its card
ShowText ==
    /\ shown = <<>>
    /\ shown' =
          <<[element |-> TextElement(text, result, onFileAction, activeTitle),
             props |-> RecoveredProps(result, onFileAction, activeTitle)]>>
    /\ UNCHANGED <<messages, resp, chatStatus, onFileAction, activeTitle, cards,
                   calls, nextId, switches>>
    /\ UNCHANGED <<extractVars, proxyVars, streamVars, uiVars>>

NextObject == ShowText

SpecObject == InitObject /\ [][NextObject]_vars

\* C29: for a recovered payload a card is shown only when action is exactly
\* edit or create and content is not empty, as edit_current for edit and as
\* create_new for create; in every other case only the recovered message is
\* shown
C29_CardOnlyForAction ==
    (shown # <<>> /\ ~result.null) =>
        /\ shown[1].element.content = result.message
        /\ shown[1].element.card = shown[1].props.card
        /\ shown[1].props.card
             <=> /\ result.action \in {Edit, Create}
                 /\ result.content \notin {UNDEFINED, <<>>}
        /\ shown[1].props.card =>
              /\ shown[1].props.markdown = result.content
              /\ result.action = Edit => shown[1].props.action = <<"edit_current">>
              /\ result.action = Create => shown[1].props.action = <<"create_new">>

\* a create object with content is shown with a create_new card
C29_Witness ==
    /\ shown # <<>>
    /\ text = ActionObject(Create, <<"c">>, NULL)
    /\ ~result.null
    /\ shown[1].props.card
    /\ shown[1].props.action = <<"create_new">>

\* an object with another action and with content is shown without a card
C29_WitnessNoCard ==
    /\ shown # <<>>
    /\ text = ActionObject(<<"c","h","a","t">>, <<"c">>, NULL)
    /\ result.content = <<"c">>
    /\ ~shown[1].props.card
    /\ shown[1].element.content = <<"m">>

------------------------------------------------------------------------------
\* The responses of the proxy (app/api/chat/route.ts)

\* C30: once the proxy has returned its response the timer is no longer
\* pending, and the response is: 504 "Backend request timed out" after the
\* abort by the timer, 504 "Backend request failed" after another failure of
\* the fetch, the backend's status with the error body and nothing of the
\* backend's body after a response that is not OK, and the streamed body with
\* status 200 only after an OK response
C30_ErrorMapping ==
    /\ phase # "fetching" => timeout # "armed"
    /\ phase = "fetching" => status = 0 /\ sent = 0
    /\ phase = "failed" =>
          /\ sent = 0
          /\ aborted => status = 504 /\ errorMsg = "Backend request timed out"
          /\ ~aborted =>
                /\ status \in BackendErrors \cup {504}
                /\ errorMsg = "Backend request failed"
    /\ phase \in {"streaming", "finished"} =>
          /\ status = 200
          /\ errorMsg = ""
          /\ timeout = "cleared"
    /\ sent > 0 => status = 200

\* the timer has aborted the fetch and the 504 for it was returned
C30_Witness ==
    /\ phase = "failed"
    /\ aborted
    /\ timeout = "fired"
    /\ status = 504
    /\ errorMsg = "Backend request timed out"

====
